---------------------------- MODULE Spec2Model ----------------------------
(***************************************************************************)
(* A model of rvspecfit's spectral interpolation engine (spec_inter.py)    *)
(* and of its cross-correlation preparation engine (make_ccf.py).          *)
(*                                                                         *)
(* The module holds several specifications over one set of variables:      *)
(*   SpecCache  the process-wide interpolator cache, getInterpolator       *)
(*   SpecPML    preprocess_model_list's worker pool, and ccf_executor      *)
(*   SpecGrid   GridInterp, GridOutsideCheck, TriInterp, SpecInterpolator  *)
(*   SpecMask   interp_masker                                              *)
(* Each specification leaves the variables of the other parts at rest.     *)
(***************************************************************************)
EXTENDS Integers, Sequences, FiniteSets, TLC

VARIABLES
    \* ---- spec_inter.py: interp_cache / getInterpolator
    disk,       \* the persisted artifacts: <<template_lib, HR>> -> keys of the pickle
    interps,    \* interp_cache.interps: setup name -> SpecInterpolator object
    nobjs,      \* number of SpecInterpolator objects constructed so far (identity)
    ncalls,     \* number of getInterpolator calls made so far
    lastCall,   \* the last getInterpolator call: its arguments, its I/O, its outcome
    nerr,       \* history: per setup, the number of calls that raised
    \* ---- make_ccf.py: ccf_executor / preprocess_model_list
    pmlIn,      \* the arguments: nmodels templates, the vsinis argument
    pmlPc,      \* where the caller is
    imodel,     \* dispatch loop: the template index (line 263)
    jv,         \* dispatch loop: the position in vsinis (line 264)
    q,          \* the AsyncResult list q, each with its unit's arguments and state
    completed,  \* history: the units in the order the workers completed them
    res,        \* the list res
    retparams,  \* the list retparams
    vsinisList, \* the list vsinisList
    ii,         \* collect loop: the position in q (line 272)
    pmlRet,     \* what preprocess_model_list returned
    files,      \* the output files ccf_executor has written
    \* ---- spec_inter.py: GridInterp, GridOutsideCheck, TriInterp, SpecInterpolator
    idgrid,     \* the regular grid's index array: vertex -> row of dats, or -1
    gridOut,    \* the last call on an interpolator: operation, input, result
    dictIn,     \* the name-keyed mapping the last eval was given, if any
    \* ---- make_ccf.py: interp_masker
    maskIn,     \* the arguments lam, spec, badmask as they were at the call
    maskOut,    \* after the call: the returned array, and the array spec
    \* ---- make_ccf.py: pad
    padIn,      \* the arguments x (wavelength axis) and y (spectrum)
    padOut,     \* after the call: what pad raised, or the arrays x2, y2
    \* ---- make_ccf.py: apodize
    apoIn,      \* the argument spec
    apoOut,     \* after the call: for each sample its taper and its input value
    \* ---- make_ccf.py: preprocess_data
    pdIn,       \* the arguments, the output grid and the fitted continuum
    pdOut,      \* after the call: res1, res2 and the intermediate arrays
    \* ---- make_ccf.py: CCFConfig, get_continuum (the spline nodes)
    cfgIn,      \* the arguments of CCFConfig
    ccfconf,    \* the constructed CCFConfig object
    nodesN,     \* the number of nodes get_continuum computed, and the span
    \* ---- spec_inter.py: getInterpolator called from several threads
    tpc,        \* per thread: where it is in getInterpolator
    tHR,        \* per thread: the argument HR of its call
    tobj,       \* per thread: the local variable interpObj
    tret,       \* per thread: what its last call returned
    tcalls,     \* per thread: the number of calls it has started
    tlater,     \* per thread: its call began with HR cached and no call running
    wlog,       \* history: per setup, the objects stored in the cache, in order
    \* ---- make_ccf.py: ccf_executor (the subsampling of the grid)
    subIn,      \* the template grid: nspec templates, and the argument every
    subOut,     \* per run of ccf_executor: the selection inds and the selected rows
    \* ---- desi_fit.py: domany
    dmIn,       \* domany's arguments and the output tables on disk at the call
    dmPc,       \* where the call of domany is
    parallel,   \* the local of that name: unbound or True
    dmI,        \* the loop's position in fs
    dres,       \* the files handed to the pool, in order
    dran,       \* how often procdesi has run on each file
    dtaken,     \* the pool tasks a worker has taken
    dexists,    \* the output tables on disk
    dlog        \* the files of the skipping messages printed

cacheVars == <<disk, interps, nobjs, ncalls, lastCall, nerr>>

pmlVars == <<pmlIn, pmlPc, imodel, jv, q, completed, res, retparams,
             vsinisList, ii, pmlRet, files>>

gridVars == <<idgrid, gridOut, dictIn>>

maskVars == <<maskIn, maskOut>>

padVars == <<padIn, padOut>>

apoVars == <<apoIn, apoOut>>

pdVars == <<pdIn, pdOut>>

cfgVars == <<cfgIn, ccfconf, nodesN>>

thrVars == <<tpc, tHR, tobj, tret, tcalls, tlater, wlog>>

subVars == <<subIn, subOut>>

dmVars == <<dmIn, dmPc, parallel, dmI, dres, dran, dtaken, dexists, dlog>>

vars == <<cacheVars, pmlVars, gridVars, maskVars,
          padVars, apoVars, pdVars, cfgVars, thrVars, subVars, dmVars>>

\* What a step of one part leaves alone: the variables of the other parts.
CacheOnly == UNCHANGED <<pmlVars, gridVars, maskVars, padVars,
        apoVars, pdVars, cfgVars, thrVars, subVars, dmVars>>
PmlOnly == UNCHANGED <<cacheVars, gridVars, maskVars, padVars,
        apoVars, pdVars, cfgVars, thrVars, subVars, dmVars>>
GridOnly == UNCHANGED <<cacheVars, pmlVars, maskVars, padVars,
        apoVars, pdVars, cfgVars, thrVars, subVars, dmVars>>
MaskOnly == UNCHANGED <<cacheVars, pmlVars, gridVars, padVars,
        apoVars, pdVars, cfgVars, thrVars, subVars, dmVars>>
PadOnly == UNCHANGED <<cacheVars, pmlVars, gridVars, maskVars,
        apoVars, pdVars, cfgVars, thrVars, subVars, dmVars>>
ApoOnly == UNCHANGED <<cacheVars, pmlVars, gridVars, maskVars, padVars,
        pdVars, cfgVars, thrVars, subVars, dmVars>>
PdOnly == UNCHANGED <<cacheVars, pmlVars, gridVars, maskVars,
        padVars, apoVars, cfgVars, thrVars, subVars, dmVars>>
CfgOnly == UNCHANGED <<cacheVars, pmlVars, gridVars, maskVars,
        padVars, apoVars, pdVars, thrVars, subVars, dmVars>>
ThrOnly == UNCHANGED <<disk, ncalls, lastCall, nerr, pmlVars, gridVars,
        maskVars, padVars, apoVars, pdVars, cfgVars, subVars,
        dmVars>>
SubOnly == UNCHANGED <<cacheVars, pmlVars, gridVars, maskVars,
        padVars, apoVars, pdVars, cfgVars, thrVars, dmVars>>
DmOnly == UNCHANGED <<cacheVars, pmlVars, gridVars, maskVars,
        padVars, apoVars, pdVars, cfgVars, thrVars, subVars>>

-----------------------------------------------------------------------------
(***************************************************************************)
(* spec_inter.py: the interpolator cache                                   *)
(***************************************************************************)

\* Bound: the number of getInterpolator calls of a run.
MaxCalls == 4

\* The setup names (HR) and the template_lib locations of the configs.
Setups == {"sdss1", "desi_b"}
Libs == {"libA", "libB"}

\* The keys a persisted pickle may hold beside lam, vec, mapper, parnames.
ArtifactKeys == {"triang", "regular"}

NoObj == [id |-> 0, name |-> "", variant |-> "", filename |-> <<"", "">>]
NoCall == [HR |-> "", lib |-> "", warmup |-> FALSE, io |-> <<>>,
           outcome |-> "none", ret |-> NoObj]

\* SpecInterpolator.__init__: a fresh object; id stands for its identity.
SpecInterpolator(id, name, variant, filename) ==
    [id |-> id, name |-> name, variant |-> variant, filename |-> filename]

\* Line 224: the cache test `HR not in interp_cache.interps`.
CacheMiss_always(HR) == TRUE

CacheMiss(HR) == HR \notin DOMAIN interps

\* Lines 226-234: the reads done on a miss, in order: np.load(mmap_mode='r'),
\* the warm-up dats.sum() when warmup_cache is set, open + pickle.load.
LoadIO(warmup_cache) ==
    <<"mmap">> \o (IF warmup_cache THEN <<"warmup">> ELSE <<>>) \o <<"open">>

\* Lines 224 and 265: on a hit the block of lines 225-263 is skipped whole,
\* whatever config and warmup_cache say: the call reads nothing.
CachedIO_warmup(warmup_cache) ==
    IF warmup_cache THEN <<"warmup">> ELSE <<>>

CachedIO(warmup_cache) == <<>>

\* Lines 238-250: the variant is chosen by probing the keys of the pickle.
VariantOf(fd) ==
    IF "triang" \in fd THEN "triang"
    ELSE IF "regular" \in fd THEN "regular"
    ELSE "unrecognized"

\* Line 263: interp_cache.interps[HR] = interpObj
StoreEntry(HR, obj) ==
    [h \in DOMAIN interps \cup {HR} |-> IF h = HR THEN obj ELSE interps[h]]

\* Lines 250: raise RuntimeError('Unrecognized interpolation file'); the raise
\* leaves the function before line 263.
RaiseUnrecognized_stores(HR, lib) ==
    StoreEntry(HR, SpecInterpolator(nobjs + 1, HR, "unrecognized", <<lib, HR>>))

RaiseUnrecognized(HR, lib) == interps

\* getInterpolator(HR, config, warmup_cache): one whole call.
getInterpolator(HR, lib, warmup_cache) ==
    /\ ncalls < MaxCalls
    /\ ncalls' = ncalls + 1
    /\ disk' = disk
    /\ CacheOnly
    /\ IF CacheMiss(HR)
       THEN LET fd == disk[<<lib, HR>>]
                variant == VariantOf(fd)
                obj == SpecInterpolator(nobjs + 1, HR, variant, <<lib, HR>>)
            IN IF variant = "unrecognized"
               THEN /\ interps' = RaiseUnrecognized(HR, lib)
                    /\ nobjs' = nobjs
                    /\ nerr' = [nerr EXCEPT ![HR] = @ + 1]
                    /\ lastCall' = [HR |-> HR, lib |-> lib, warmup |-> warmup_cache,
                                    io |-> LoadIO(warmup_cache),
                                    outcome |-> "RuntimeError", ret |-> NoObj]
               ELSE /\ interps' = StoreEntry(HR, obj)
                    /\ nobjs' = nobjs + 1
                    /\ nerr' = nerr
                    /\ lastCall' = [HR |-> HR, lib |-> lib, warmup |-> warmup_cache,
                                    io |-> LoadIO(warmup_cache),
                                    outcome |-> "built", ret |-> obj]
       ELSE /\ interps' = interps
            /\ nobjs' = nobjs
            /\ nerr' = nerr
            /\ lastCall' = [HR |-> HR, lib |-> lib, warmup |-> warmup_cache,
                            io |-> CachedIO(warmup_cache),
                            outcome |-> "cached", ret |-> interps[HR]]

CacheInit ==
    /\ disk \in [Libs \X Setups -> SUBSET ArtifactKeys]
    /\ interps = [h \in {} |-> NoObj]
    /\ nobjs = 0
    /\ ncalls = 0
    /\ lastCall = NoCall
    /\ nerr = [h \in Setups |-> 0]

CacheIdle ==
    /\ disk = [f \in Libs \X Setups |-> {}]
    /\ interps = [h \in {} |-> NoObj]
    /\ nobjs = 0
    /\ ncalls = 0
    /\ lastCall = NoCall
    /\ nerr = [h \in Setups |-> 0]

CallGetInterpolator ==
    \E HR \in Setups, lib \in Libs, warmup_cache \in BOOLEAN :
        getInterpolator(HR, lib, warmup_cache)

CacheNext == CallGetInterpolator

-----------------------------------------------------------------------------
(***************************************************************************)
(* make_ccf.py: preprocess_model_list and its caller ccf_executor          *)
(***************************************************************************)

\* Bound: the number of templates handed to preprocess_model_list.
MaxModels == 2

\* Line 254: the size of the worker pool.
nthreads == 16

\* Python's None among the vsini values (line 259: vsinis = [None]).
NoneV == -1

\* The vsinis arguments tried: None, or a list of rotation velocities.
VsiniArgs ==
    {[isNone |-> TRUE, list |-> <<>>]}
    \cup {[isNone |-> FALSE, list |-> l] : l \in {<<>>, <<30>>, <<0, 30>>}}

\* models[i] and params[i]: template i's spectrum and its parameter vector.
models(i) == <<"spectrum", i>>
params(i) == <<"params", i>>

\* Lines 258-259.
Vsinis(arg) == IF arg.isNone THEN <<NoneV>> ELSE arg.list

\* Lines 210-221, preprocess_model: the template is convolved only for a
\* vsini that is neither None nor 0, then continuum-normalised and resampled.
\* The numerical result is kept as the pair it is a function of.
preprocess_model(model0, vsini) ==
    [model |-> model0,
     convolved |-> IF vsini # NoneV /\ vsini # 0 THEN vsini ELSE 0]

NoRet == [returned |-> FALSE, res |-> <<>>, retparams |-> <<>>, vsinisList |-> <<>>]

\* The three files of lines 450-452, in the order they are written.
OutFiles == <<"ccf_pkl", "ccfdat_npz", "ccfmod_npy">>

nvsinis == Len(Vsinis(pmlIn))

\* Lines 263-270: one iteration of the nested dispatch loops.
Dispatch ==
    /\ pmlPc = "dispatch"
    /\ imodel <= pmlIn.nmodels
    /\ jv <= nvsinis
    /\ LET vsini == Vsinis(pmlIn)[jv] IN
       /\ retparams' = Append(retparams, params(imodel))
       /\ q' = Append(q, [args |-> <<models(imodel), vsini, params(imodel)>>,
                          st |-> "queued"])
       /\ vsinisList' = Append(vsinisList, vsini)
    /\ IF jv < nvsinis
       THEN /\ jv' = jv + 1
            /\ imodel' = imodel
       ELSE /\ jv' = 1
            /\ imodel' = imodel + 1
    /\ UNCHANGED <<pmlIn, pmlPc, completed, res, ii, pmlRet, files>>
    /\ PmlOnly

\* Line 263: the loops are over (also when models or vsinis is empty).
DispatchDone ==
    /\ pmlPc = "dispatch"
    /\ imodel > pmlIn.nmodels \/ nvsinis = 0
    /\ pmlPc' = "collect"
    /\ UNCHANGED <<pmlIn, imodel, jv, q, completed, res, retparams, vsinisList,
                   ii, pmlRet, files>>
    /\ PmlOnly

Running == {k \in 1..Len(q) : q[k].st = "running"}

\* A pool worker takes the oldest queued task (the pool's task queue is FIFO).
WorkerStart(k) ==
    /\ k \in 1..Len(q)
    /\ q[k].st = "queued"
    /\ \A l \in 1..(k - 1) : q[l].st # "queued"
    /\ Cardinality(Running) < nthreads
    /\ q' = [q EXCEPT ![k].st = "running"]
    /\ UNCHANGED <<pmlIn, pmlPc, imodel, jv, completed, res, retparams,
                   vsinisList, ii, pmlRet, files>>
    /\ PmlOnly

\* A worker finishes its unit, in any order: preprocess_model returns, or raises.
WorkerFinish(k, ok) ==
    /\ k \in 1..Len(q)
    /\ q[k].st = "running"
    /\ q' = [q EXCEPT ![k].st = IF ok THEN "ok" ELSE "err"]
    /\ completed' = Append(completed, k)
    /\ UNCHANGED <<pmlIn, pmlPc, imodel, jv, res, retparams, vsinisList, ii,
                   pmlRet, files>>
    /\ PmlOnly

\* Line 272: `for ii, curx in enumerate(q)`: the future waited for next.
CollectSource_completion(n) ==
    IF n <= Len(completed) THEN completed[n] ELSE n

CollectSource(n) == n

\* Line 274: curx.get() hands back what the unit returned.
GetValue(k) == preprocess_model(q[k].args[1], q[k].args[2])

\* Lines 272-275: curx.get() blocks until that unit is done; it returns the
\* unit's value, or re-raises the unit's exception, which leaves
\* preprocess_model_list (nothing catches it).
Collect_swallow ==
    /\ pmlPc = "collect"
    /\ ii <= Len(q)
    /\ LET k == CollectSource(ii) IN
       /\ q[k].st \in {"ok", "err"}
       /\ res' = IF q[k].st = "ok" THEN Append(res, GetValue(k)) ELSE res
       /\ ii' = ii + 1
       /\ pmlPc' = pmlPc
    /\ UNCHANGED <<pmlIn, imodel, jv, q, completed, retparams, vsinisList,
                   pmlRet, files>>
    /\ PmlOnly

Collect ==
    /\ pmlPc = "collect"
    /\ ii <= Len(q)
    /\ LET k == CollectSource(ii) IN
       /\ q[k].st \in {"ok", "err"}
       /\ IF q[k].st = "ok"
          THEN /\ res' = Append(res, GetValue(k))
               /\ ii' = ii + 1
               /\ pmlPc' = pmlPc
          ELSE /\ res' = res
               /\ ii' = ii
               /\ pmlPc' = "raised"
    /\ UNCHANGED <<pmlIn, imodel, jv, q, completed, retparams, vsinisList,
                   pmlRet, files>>
    /\ PmlOnly

\* Lines 276-279: pool.close(), pool.join(), return res, retparams, vsinisList.
Return ==
    /\ pmlPc = "collect"
    /\ ii > Len(q)
    /\ pmlRet' = [returned |-> TRUE, res |-> res, retparams |-> retparams,
                  vsinisList |-> vsinisList]
    /\ pmlPc' = "returned"
    /\ UNCHANGED <<pmlIn, imodel, jv, q, completed, res, retparams, vsinisList,
                   ii, files>>
    /\ PmlOnly

\* ccf_executor, lines 448-463: with the returned lists in hand, the three
\* output files are written one after the other.
WriteFile ==
    /\ pmlPc = "returned"
    /\ Cardinality(files) < Len(OutFiles)
    /\ files' = files \cup {OutFiles[Cardinality(files) + 1]}
    /\ UNCHANGED <<pmlIn, pmlPc, imodel, jv, q, completed, res, retparams,
                   vsinisList, ii, pmlRet>>
    /\ PmlOnly

PmlInit ==
    /\ pmlIn \in {[nmodels |-> n, isNone |-> a.isNone, list |-> a.list] :
                     n \in 1..MaxModels, a \in VsiniArgs}
    /\ pmlPc = "dispatch"
    /\ imodel = 1
    /\ jv = 1
    /\ q = <<>>
    /\ completed = <<>>
    /\ res = <<>>
    /\ retparams = <<>>
    /\ vsinisList = <<>>
    /\ ii = 1
    /\ pmlRet = NoRet
    /\ files = {}

PmlIdle ==
    /\ pmlIn = [nmodels |-> 0, isNone |-> TRUE, list |-> <<>>]
    /\ pmlPc = "idle"
    /\ imodel = 1
    /\ jv = 1
    /\ q = <<>>
    /\ completed = <<>>
    /\ res = <<>>
    /\ retparams = <<>>
    /\ vsinisList = <<>>
    /\ ii = 1
    /\ pmlRet = NoRet
    /\ files = {}

PmlNext ==
    \/ Dispatch
    \/ DispatchDone
    \/ \E k \in 1..Len(q) : WorkerStart(k)
    \/ \E k \in 1..Len(q), ok \in BOOLEAN : WorkerFinish(k, ok)
    \/ Collect
    \/ Return
    \/ WriteFile

-----------------------------------------------------------------------------
(***************************************************************************)
(* Exact arithmetic: a value is a fraction n/d in lowest terms with d > 0, *)
(* or NaN (d = 0).  The model's grids, spectra and query points are        *)
(* integers, so every interpolated value is such a fraction.               *)
(***************************************************************************)

Abs(x) == IF x < 0 THEN -x ELSE x

RECURSIVE GCD(_, _)
GCD(a, b) == IF b = 0 THEN a ELSE GCD(b, a % b)

NaN == [n |-> 0, d |-> 0]

\* n/d in lowest terms; a zero denominator gives NaN as numpy's division does
\* for 0/0 (inf is not told apart from NaN here).
Rat(n, d) ==
    IF d = 0 THEN NaN
    ELSE LET g == GCD(Abs(n), Abs(d))
             sg == IF d < 0 THEN -1 ELSE 1
         IN [n |-> (sg * n) \div g, d |-> (sg * d) \div g]

IsFinite(x) == x.d # 0

RECURSIVE SumOver(_, _)
SumOver(S, f) ==
    IF S = {} THEN 0
    ELSE LET x == CHOOSE y \in S : TRUE IN f[x] + SumOver(S \ {x}, f)

RECURSIVE ProdOver(_, _)
ProdOver(S, f) ==
    IF S = {} THEN 1
    ELSE LET x == CHOOSE y \in S : TRUE IN f[x] * ProdOver(S \ {x}, f)

-----------------------------------------------------------------------------
(***************************************************************************)
(* spec_inter.py: GridInterp and GridOutsideCheck over a regular grid.     *)
(* Indices are 0-based as in the source.                                   *)
(***************************************************************************)

\* Bound: how many vertices of the grid may lack a template (-1 in idgrid).
MaxAbsent == 2

\* Bound: how far beyond the grid's extrema the query points reach.
QueryMargin == 1

\* The dimensions of the parameter space: range(self.ndim).
Dims == {0, 1}

\* self.uvecs: per dimension, the sorted unique coordinate values.
uvecs ==
    [i \in Dims |-> IF i = 0 THEN [k \in 0..2 |-> 2 * k]
                    ELSE [k \in 0..2 |-> IF k = 2 THEN 5 ELSE 2 * k]]

\* self.lens (lines 60 and 91).
lens == [i \in Dims |-> Cardinality(DOMAIN uvecs[i])]

\* The index tuples of idgrid.
Vertices == {v \in [Dims -> 0..2] : \A i \in Dims : v[i] \in DOMAIN uvecs[i]}

\* The row of dats a present vertex points to.
RowOf(v) == 3 * v[0] + v[1]

\* self.dats: row -> stored (log-)spectrum; len(self.dats[0]) = 2.
dats(row) == [k \in 0..1 |-> IF k = 0 THEN row + 1 ELSE (row * row) % 7]

\* self.edges (lines 58-59, 92-93): the 0/1 vectors of the 2^ndim corners.
edges == [Dims -> {0, 1}]

\* np.digitize(x, bins) for increasing bins, right=False: the i with
\* bins[i-1] <= x < bins[i], which is the number of bins <= x.
digitize_right(x, bins) == Cardinality({k \in DOMAIN bins : bins[k] < x})

digitize(x, bins) == Cardinality({k \in DOMAIN bins : bins[k] <= x})

\* Lines 62 and 107: pos = [np.digitize(p[i], self.uvecs[i]) - 1 ...].
GridPos(p) == [i \in Dims |-> digitize(p[i], uvecs[i]) - 1]

\* Lines 63 and 108-109: some dimension has no cell [pos, pos + 1].
OutOfBounds(pos) == \E i \in Dims : pos[i] < 0 \/ pos[i] >= lens[i] - 1

\* The query points: integer points reaching QueryMargin beyond the extrema.
QueryPoints ==
    [Dims -> (0 - QueryMargin)..(5 + QueryMargin)]

\* What a call returns: the branch taken, whether np.exp was applied, the
\* returned vector v, and (when interpolating) the corner weights coeffs2.
Result(path, exp, v, w) == [path |-> path, exp |-> exp, v |-> v, w |-> w]

NoWeights == [c \in {} |-> NaN]

\* Lines 110 and 121: np.ones(len(self.dats[0])).
UnitSpectrum(path) ==
    Result(path, FALSE, [k \in DOMAIN dats(0) |-> Rat(1, 1)], NoWeights)

\* Line 119: np.any(pos2 < 0), over all 2^N corners whatever their weight.
AnyAbsent_weighted(pos2, wnum) ==
    \E curp \in edges : pos2[curp] < 0 /\ wnum[curp] # 0

AnyAbsent(pos2, wnum) == \E curp \in edges : pos2[curp] < 0

\* Lines 104-125, GridInterp.__call__.
GridInterp(idg, exp, p) ==
    LET pos == GridPos(p) IN
    IF OutOfBounds(pos) THEN UnitSpectrum("outofbounds")
    ELSE
      LET lo == [i \in Dims |-> uvecs[i][pos[i]]]
          hi == [i \in Dims |-> uvecs[i][pos[i] + 1]]
          \* coeffs[i] = (p[i] - lo[i]) / (hi[i] - lo[i]), from 0 to 1
          cnum == [i \in Dims |-> p[i] - lo[i]]
          cden == [i \in Dims |-> hi[i] - lo[i]]
          \* coeffs2 = prod(coeffs**curp * (1 - coeffs)**(1 - curp)), over
          \* the common denominator prod(cden)
          wnum == [curp \in edges |->
                     ProdOver(Dims, [i \in Dims |->
                         IF curp[i] = 1 THEN cnum[i] ELSE cden[i] - cnum[i]])]
          wden == ProdOver(Dims, cden)
          pos2 == [curp \in edges |-> idg[[i \in Dims |-> curp[i] + pos[i]]]]
      IN IF AnyAbsent(pos2, wnum)
         THEN UnitSpectrum("absent")
         ELSE Result("interp", exp,
                     [k \in DOMAIN dats(0) |->
                        Rat(SumOver(edges, [curp \in edges |->
                                wnum[curp] * dats(pos2[curp])[k]]), wden)],
                     [curp \in edges |-> Rat(wnum[curp], wden)])

\* Lines 65-67 as the source has them: the corners looked up are
\* idgrid[tuple(curp)], the corners of the cell at index (0, ..., 0).
CheckedCorner(curp, pos) == curp

\* Lines 61-68, GridOutsideCheck.__call__.
GridOutsideCheck(idg, p) ==
    LET pos == GridPos(p) IN
    IF OutOfBounds(pos) THEN TRUE
    ELSE IF \E curp \in edges : idg[CheckedCorner(curp, pos)] = -1 THEN TRUE
    ELSE FALSE

-----------------------------------------------------------------------------
(***************************************************************************)
(* spec_inter.py: TriInterp over a Delaunay triangulation, and the         *)
(* LinearNDInterpolator of the flags that getInterpolator pairs with it.   *)
(***************************************************************************)

\* triang.points: four points whose hull is not the box of their extrema.
TriPoints ==
    [v \in 0..3 |->
        [i \in Dims |-> IF v = 0 THEN 0
                        ELSE IF v = 1 THEN (IF i = 0 THEN 4 ELSE 0)
                        ELSE IF v = 2 THEN (IF i = 0 THEN 0 ELSE 4)
                        ELSE 3]]

\* triang.simplices: the Delaunay triangles of TriPoints, counter-clockwise.
simplices == [t \in 0..1 |-> IF t = 0 THEN <<0, 1, 3>> ELSE <<0, 3, 2>>]

\* fd['extraflags']: per point, 1 when the point was added outside the grid.
extraflags == [v \in 0..3 |-> IF v = 3 THEN 1 ELSE 0]

\* Twice the signed area of the triangle A, B, C.
Cross(A, B, C) ==
    (B[0] - A[0]) * (C[1] - A[1]) - (B[1] - A[1]) * (C[0] - A[0])

\* Lines 44-46: the barycentric coordinates of p in simplex xid, over their
\* common denominator: b from triang.transform, and b1 = r_[b, 1 - b.sum()].
BaryDen(xid) ==
    LET t == simplices[xid] IN
    Cross(TriPoints[t[1]], TriPoints[t[2]], TriPoints[t[3]])

BaryNum(xid, p) ==
    LET t == simplices[xid]
        A == TriPoints[t[1]]
        B == TriPoints[t[2]]
        C == TriPoints[t[3]]
        b1 == Cross(p, B, C)
        b2 == Cross(A, p, C)
    IN <<b1, b2, BaryDen(xid) - b1 - b2>>

\* triang.find_simplex(p): a simplex that contains p (its border included),
\* or -1 when none does.  On a shared edge the lower index is taken; the
\* interpolated value is the same in both.
find_simplex(p) ==
    LET inside == {t \in DOMAIN simplices :
                      \A c \in 1..3 : BaryNum(t, p)[c] >= 0}
    IN IF inside = {} THEN -1
       ELSE CHOOSE t \in inside : \A u \in inside : t <= u

\* Line 43: the scalar np.nan.
ScalarNaN == Result("nan", FALSE, [k \in {0} |-> NaN], NoWeights)

\* Python's index -1 of triang.simplices / triang.transform: the last one.
PyIndex(xid) == IF xid < 0 THEN Cardinality(DOMAIN simplices) + xid ELSE xid

\* The weighted sum of lines 47-48 in simplex xid.
TriCombine(exp, xid, p) ==
    LET t == simplices[xid]
        b1 == BaryNum(xid, p)
    IN Result("interp", exp,
              [k \in DOMAIN dats(0) |->
                  Rat(SumOver(1..3, [c \in 1..3 |-> b1[c] * dats(t[c])[k]]),
                      BaryDen(xid))],
              [c \in 1..3 |-> Rat(b1[c], BaryDen(xid))])

TriInterp_nocheck(exp, p) == TriCombine(exp, PyIndex(find_simplex(p)), p)

\* Lines 39-51, TriInterp.__call__.
TriInterp(exp, p) ==
    LET xid == find_simplex(p) IN
    IF xid = -1 THEN ScalarNaN
    ELSE TriCombine(exp, xid, p)

\* scipy's LinearNDInterpolator(triang, extraflags)(p): the barycentric
\* interpolation of the flags, NaN (the fill value) outside the hull.
LinearNDInterpolator(p) ==
    LET xid == find_simplex(p) IN
    IF xid = -1 THEN NaN
    ELSE LET t == simplices[xid]
             b1 == BaryNum(xid, p)
         IN Rat(SumOver(1..3, [c \in 1..3 |-> b1[c] * extraflags[t[c]]]),
                BaryDen(xid))

\* Python's truth value of a returned number: NaN and every non-zero are true.
Truthy(x) == ~IsFinite(x) \/ x.n # 0

-----------------------------------------------------------------------------
(***************************************************************************)
(* spec_inter.py: SpecInterpolator                                         *)
(***************************************************************************)

\* Line 225: getInterpolator builds both variants with exp=expFlag.
expFlag == TRUE

\* mapper.forward (make_nd.py): raw physical parameters to the coordinates
\* the interpolator is built over, one affine map per dimension.
MapOrigin == [i \in Dims |-> IF i = 0 THEN 2 ELSE -3]

MapperForward(param0) == [i \in Dims |-> param0[i] - MapOrigin[i]]

\* The raw parameter vectors tried: those that map onto the query points.
RawPoints == {[i \in Dims |-> p[i] + MapOrigin[i]] : p \in QueryPoints}

\* Lines 241-243 and 247-248: self.extraper of either variant, as its truth
\* value.
Extraper(variant, idg, param) ==
    IF variant = "triang" THEN Truthy(LinearNDInterpolator(param))
    ELSE GridOutsideCheck(idg, param)

\* Lines 188-189, SpecInterpolator.outsideFlag.
outsideFlag_unmapped(variant, idg, param0) == Extraper(variant, idg, param0)

outsideFlag(variant, idg, param0) ==
    Extraper(variant, idg, MapperForward(param0))

\* Lines 241 and 247: self.interper of either variant.
Interper(variant, idg, param) ==
    IF variant = "triang" THEN TriInterp(expFlag, param)
    ELSE GridInterp(idg, expFlag, param)

\* Lines 195-196, SpecInterpolator.eval on an ordered parameter vector.
eval(variant, idg, param0) == Interper(variant, idg, MapperForward(param0))

NoPoint == [i \in Dims |-> 0]
NoResult == Result("none", FALSE, [k \in {} |-> NaN], NoWeights)
NoGridCall == [op |-> "none", variant |-> "", exp |-> FALSE, p |-> NoPoint,
               ret |-> NoResult, truth |-> FALSE]

\* A direct call of a GridInterp object built with exp.
CallGridInterp(exp, p) ==
    /\ gridOut.op = "none"
    /\ gridOut' = [op |-> "GridInterp", variant |-> "regular", exp |-> exp,
                   p |-> p, ret |-> GridInterp(idgrid, exp, p), truth |-> FALSE]
    /\ UNCHANGED <<idgrid, dictIn>>
    /\ GridOnly

\* A direct call of a GridOutsideCheck object.
CallGridOutsideCheck(p) ==
    /\ gridOut.op = "none"
    /\ gridOut' = [op |-> "GridOutsideCheck", variant |-> "regular",
                   exp |-> FALSE, p |-> p, ret |-> NoResult,
                   truth |-> GridOutsideCheck(idgrid, p)]
    /\ UNCHANGED <<idgrid, dictIn>>
    /\ GridOnly

\* A direct call of a TriInterp object built with exp.
CallTriInterp(exp, p) ==
    /\ gridOut.op = "none"
    /\ gridOut' = [op |-> "TriInterp", variant |-> "triang", exp |-> exp,
                   p |-> p, ret |-> TriInterp(exp, p), truth |-> FALSE]
    /\ UNCHANGED <<idgrid, dictIn>>
    /\ GridOnly

\* SpecInterpolator.outsideFlag(param0) on an interpolator of either variant.
CallOutsideFlag(variant, param0) ==
    /\ gridOut.op = "none"
    /\ gridOut' = [op |-> "outsideFlag", variant |-> variant, exp |-> expFlag,
                   p |-> param0, ret |-> NoResult,
                   truth |-> outsideFlag(variant, idgrid, param0)]
    /\ UNCHANGED <<idgrid, dictIn>>
    /\ GridOnly

\* SpecInterpolator.eval(param0) on an interpolator of either variant.
CallEval(variant, param0) ==
    /\ gridOut.op = "none"
    /\ gridOut' = [op |-> "eval", variant |-> variant, exp |-> expFlag,
                   p |-> param0, ret |-> eval(variant, idgrid, param0),
                   truth |-> FALSE]
    /\ UNCHANGED <<idgrid, dictIn>>
    /\ GridOnly

\* Line 170: self.parnames, the names of the parameters in the order of the
\* parameter vector.
parnames == <<"teff", "logg">>

\* A key the interpolator has no parameter for, and its value.
ExtraItem == <<"feh", 9>>

InsertAt(d, k, item) == SubSeq(d, 1, k - 1) \o <<item>> \o SubSeq(d, k, Len(d))

\* The name-keyed mappings tried, as the items in the mapping's own order:
\* either order of the two parameters, with or without the extra key.
DictsOf(param0) ==
    LET two == {<<<<parnames[1], param0[0]>>, <<parnames[2], param0[1]>>>>,
                <<<<parnames[2], param0[1]>>, <<parnames[1], param0[0]>>>>}
    IN two \cup {InsertAt(d, k, ExtraItem) : d \in two, k \in 1..3}

\* param0[key] for a mapping param0.
getitem(d, key) == d[CHOOSE j \in 1..Len(d) : d[j][1] = key][2]

\* Line 194: param0 = [param0[_] for _ in self.parnames].
OrderedVector_byposition(d) == [i \in Dims |-> d[i + 1][2]]

OrderedVector(d) == [i \in Dims |-> getitem(d, parnames[i + 1])]

\* Lines 193-196, SpecInterpolator.eval on a name-keyed mapping.
eval_dict(variant, idg, d) == eval(variant, idg, OrderedVector(d))

\* SpecInterpolator.eval(param0) with a dict param0.
CallEvalDict(variant, d) ==
    /\ gridOut.op = "none"
    /\ gridOut' = [op |-> "eval_dict", variant |-> variant, exp |-> expFlag,
                   p |-> OrderedVector(d), ret |-> eval_dict(variant, idgrid, d),
                   truth |-> FALSE]
    /\ dictIn' = d
    /\ idgrid' = idgrid
    /\ GridOnly

\* The grids: every vertex has its row, but for at most MaxAbsent of them.
GridInit ==
    /\ \E absent \in SUBSET Vertices :
          /\ Cardinality(absent) <= MaxAbsent
          /\ idgrid = [v \in Vertices |-> IF v \in absent THEN -1 ELSE RowOf(v)]
    /\ gridOut = NoGridCall
    /\ dictIn = <<>>

GridIdle ==
    /\ idgrid = [v \in Vertices |-> RowOf(v)]
    /\ gridOut = NoGridCall
    /\ dictIn = <<>>

GridNext ==
    \/ \E exp \in BOOLEAN, p \in QueryPoints : CallGridInterp(exp, p)
    \/ \E p \in QueryPoints : CallGridOutsideCheck(p)
    \/ \E exp \in BOOLEAN, p \in QueryPoints : CallTriInterp(exp, p)
    \/ \E variant \in {"triang", "regular"}, param0 \in RawPoints :
          CallOutsideFlag(variant, param0)
    \/ \E variant \in {"triang", "regular"}, param0 \in RawPoints :
          CallEval(variant, param0)
    \/ \E variant \in {"triang", "regular"}, param0 \in RawPoints :
          \E d \in DictsOf(param0) : CallEvalDict(variant, d)

-----------------------------------------------------------------------------
(***************************************************************************)
(* make_ccf.py: interp_masker.  Arrays are 0-based functions.              *)
(***************************************************************************)

\* Bound: the number of pixels of the spectrum.
MaskLen == 4

\* The flux values a pixel may hold.
FluxValues == {Rat(0, 1), Rat(1, 1), Rat(3, 1)}

Pixels == 0..(MaskLen - 1)

\* The wavelength vectors: strictly increasing, not evenly spaced in general.
LamVectors ==
    {l \in [Pixels -> 1..(MaskLen + 1)] :
        \A i \in Pixels : i + 1 \in Pixels => l[i] < l[i + 1]}

\* The inputs: the mask marks the invalid pixels, so a good pixel holds a
\* finite flux and a bad one any flux or NaN.
MaskInputs ==
    {[lam |-> l, spec |-> sp, badmask |-> b] :
        l \in LamVectors, sp \in [Pixels -> FluxValues \cup {NaN}],
        b \in [Pixels -> BOOLEAN]}

\* np.nonzero(mask)[0]: the indices where mask holds, ascending.
nonzero(mask) ==
    LET S == {i \in DOMAIN mask : mask[i]} IN
    [k \in 0..(Cardinality(S) - 1) |->
        CHOOSE x \in S : Cardinality({y \in S : y < x}) = k]

\* np.searchsorted(a, v): the number of elements of the sorted a below v.
searchsorted(a, v) == Cardinality({k \in DOMAIN a : a[k] < v})

\* Line 320: (-(l1 - l0) * s2 + (l2 - l0) * s1) / (l2 - l1).
LinInterp_swapped(l0, l1, l2, s1, s2) ==
    IF ~IsFinite(s1) \/ ~IsFinite(s2) THEN NaN
    ELSE Rat((0 - (l1 - l0)) * s1.n * s2.d + (l2 - l0) * s2.n * s1.d,
             (l2 - l1) * s1.d * s2.d)

LinInterp(l0, l1, l2, s1, s2) ==
    IF ~IsFinite(s1) \/ ~IsFinite(s2) THEN NaN
    ELSE Rat((0 - (l1 - l0)) * s2.n * s1.d + (l2 - l0) * s1.n * s2.d,
             (l2 - l1) * s1.d * s2.d)

\* Line 303: spec1 = spec * 1 is a new array, so the writes to spec1 (and to
\* ret, which is spec1) leave the caller's array spec as it was.
InputAfter_aliased(spec, spec1) == spec1

InputAfter(spec, spec1) == spec

\* Lines 308-309, every pixel bad: ret = spec1; ret[~np.isfinite(ret)] = 1.
AllBadFill_keep(spec) == spec

AllBadFill(spec) ==
    [i \in DOMAIN spec |-> IF IsFinite(spec[i]) THEN spec[i] ELSE Rat(1, 1)]

\* Lines 303-321, interp_masker: the returned array, and the caller's array
\* spec after the call.
interp_masker(lam, spec, badmask) ==
    LET xbad == nonzero(badmask)
        xgood == nonzero([i \in DOMAIN badmask |-> ~badmask[i]])
        ngood == Cardinality(DOMAIN xgood)
        xpos == [b \in DOMAIN xbad |-> searchsorted(xgood, xbad[b])]
        leftedge == [b \in DOMAIN xbad |-> xpos[b] = 0]
        rightedge == [b \in DOMAIN xbad |-> xpos[b] = ngood]
        spec1 ==
            IF ngood = 0
            THEN AllBadFill(spec)
            ELSE [i \in DOMAIN spec |->
                    IF ~badmask[i] THEN spec[i]
                    ELSE LET b == CHOOSE c \in DOMAIN xbad : xbad[c] = i IN
                         IF leftedge[b] THEN spec[xgood[0]]
                         ELSE IF rightedge[b] THEN spec[xgood[ngood - 1]]
                         ELSE LinInterp(lam[i],
                                        lam[xgood[xpos[b] - 1]],
                                        lam[xgood[xpos[b]]],
                                        spec[xgood[xpos[b] - 1]],
                                        spec[xgood[xpos[b]]])]
    IN [called |-> TRUE, ret |-> spec1, spec |-> InputAfter(spec, spec1)]

CallInterpMasker ==
    /\ ~maskOut.called
    /\ maskOut' = interp_masker(maskIn.lam, maskIn.spec, maskIn.badmask)
    /\ maskIn' = maskIn
    /\ MaskOnly

MaskInit ==
    /\ maskIn \in MaskInputs
    /\ \A i \in Pixels : ~maskIn.badmask[i] => IsFinite(maskIn.spec[i])
    /\ maskOut = [called |-> FALSE, ret |-> maskIn.spec, spec |-> maskIn.spec]

MaskIdle ==
    /\ maskIn = [lam |-> [i \in Pixels |-> i + 1],
                 spec |-> [i \in Pixels |-> Rat(1, 1)],
                 badmask |-> [i \in Pixels |-> FALSE]]
    /\ maskOut = [called |-> FALSE, ret |-> maskIn.spec, spec |-> maskIn.spec]

MaskNext == CallInterpMasker

-----------------------------------------------------------------------------
(***************************************************************************)
(* make_ccf.py: pad.  The wavelength axis holds integers; an element of    *)
(* the returned axis is a power b^e kept as the pair (b, e), a plain value *)
(* v being v^1, because the second branch of pad raises a number to the    *)
(* power of the axis values.                                               *)
(***************************************************************************)

\* Bound: the longest input of pad.
MaxPadLen == 5

RECURSIVE IntPow(_, _)
IntPow(b, e) == IF e = 0 THEN 1 ELSE b * IntPow(b, e - 1)

Plain(v) == [b |-> v, e |-> 1]
Pow(b, e) == [b |-> b, e |-> e]

\* Whether the power u has the value of the positive integer c.
RECURSIVE PowIs(_, _)
PowIs(u, c) ==
    IF u.b = 1 \/ u.e = 0 THEN c = 1
    ELSE IF u.e < 0 THEN FALSE
    ELSE c % u.b = 0 /\ PowIs(Pow(u.b, u.e - 1), c \div u.b)

\* The axes of length n: evenly spaced, geometrically spaced, and evenly
\* spaced ones with one element moved.
LinearAxes(n) ==
    {[i \in 0..(n - 1) |-> x0 + i * step] : x0 \in 1..3, step \in 1..2}

LogAxes(n) ==
    {[i \in 0..(n - 1) |-> x0 * IntPow(r, i)] : x0 \in 1..3, r \in 2..3}

MovedAxes(n) ==
    {[x EXCEPT ![j] = x[j] + 1] : x \in LinearAxes(n), j \in {n - 1}}

PadInputs ==
    UNION {{[x |-> x, y |-> y] :
               x \in LinearAxes(n) \cup LogAxes(n) \cup MovedAxes(n),
               y \in [0..(n - 1) -> 0..1]} : n \in 2..MaxPadLen}

\* Line 161: l1 = int(2**np.ceil(np.log(lspec) / np.log(2))).  In double
\* precision the quotient is the exact logarithm for every lspec below 2^29.
RECURSIVE CeilLog2(_)
CeilLog2(lspec) == IF lspec <= 1 THEN 0 ELSE 1 + CeilLog2((lspec + 1) \div 2)

l1(lspec) == IntPow(2, CeilLog2(lspec))

\* Line 162: delta1 = int((l1 - lspec) / 2), the extra pixels on the left.
delta1_ceil(lspec) == (l1(lspec) - lspec + 1) \div 2

delta1(lspec) == (l1(lspec) - lspec) \div 2

\* Line 163: delta2 = int((l1 - lspec) - delta1), the extra pixels on the right.
delta2(lspec) == (l1(lspec) - lspec) - delta1(lspec)

\* np.concatenate((a, b, c)) of 0-based arrays of lengths la, lb, lc.
concatenate(a, la, b, lb, c, lc) ==
    [i \in 0..(la + lb + lc - 1) |->
        IF i < la THEN a[i]
        ELSE IF i < la + lb THEN b[i - la] ELSE c[i - la - lb]]

\* Line 166: np.allclose(np.diff(x), deltax); for the integer axes of the
\* model the tolerance of allclose admits equal differences only.
IsLinear(x) ==
    \A i \in DOMAIN x : i + 1 \in DOMAIN x => x[i + 1] - x[i] = x[1] - x[0]

\* Line 169: np.allclose(np.diff(np.log(x)), np.log(x[1] / x[0])).
IsLog(x) ==
    \A i \in DOMAIN x : i + 1 \in DOMAIN x => x[i + 1] * x[0] = x[i] * x[1]

NoArray == [i \in {} |-> 0]

PadRaised(e) == [called |-> TRUE, raised |-> e, x2 |-> NoArray, y2 |-> NoArray]

\* Lines 171-172: deltax ** (a, x, c) with a = np.arange(-delta1, 0) * x[0]
\* and c = x[-1] * deltax**(1 + np.arange(delta2)).  The three arrays differ
\* in length (delta1 <= delta2 < lspec), so numpy from 1.24 on raises
\* ValueError when it makes an array of the tuple; an older numpy makes an
\* array of three objects, raises deltax to each and concatenates the powers.
PadLogBranch(x, y2, lspec) ==
    LET d1 == delta1(lspec)
        d2 == delta2(lspec)
        deltax == x[1] - x[0]
        a == [k \in 0..(d1 - 1) |-> Pow(deltax, (k - d1) * x[0])]
        b == [i \in 0..(lspec - 1) |-> Pow(deltax, x[i])]
        c == [k \in 0..(d2 - 1) |->
                 Pow(deltax, x[lspec - 1] * IntPow(deltax, 1 + k))]
    IN {PadRaised("ValueError"),
        [called |-> TRUE, raised |-> "",
         x2 |-> concatenate(a, d1, b, lspec, c, d2), y2 |-> y2]}

\* Lines 173-175: raise Exception('the wavelength axis is neither
\* logarithmic, nor linear'); nothing is returned.
PadElseBranch_unextended(x, y2, lspec) ==
    {[called |-> TRUE, raised |-> "",
      x2 |-> [i \in 0..(lspec - 1) |-> Plain(x[i])], y2 |-> y2]}

PadElseBranch(x, y2, lspec) == {PadRaised("Exception")}

\* Lines 160-176, pad: the outcomes a call can have.
pad(x, y) ==
    LET lspec == Cardinality(DOMAIN y)
        d1 == delta1(lspec)
        d2 == delta2(lspec)
        zeros == [k \in 0..(l1(lspec) - 1) |-> 0]
        y2 == concatenate(zeros, d1, y, lspec, zeros, d2)
        deltax == x[1] - x[0]
    IN IF IsLinear(x)
       THEN {[called |-> TRUE, raised |-> "",
              x2 |-> concatenate(
                  [k \in 0..(d1 - 1) |-> Plain((k - d1) * deltax + x[0])], d1,
                  [i \in 0..(lspec - 1) |-> Plain(x[i])], lspec,
                  [k \in 0..(d2 - 1) |-> Plain(x[lspec - 1] + deltax * (1 + k))],
                  d2),
              y2 |-> y2]}
       ELSE IF IsLog(x) THEN PadLogBranch(x, y2, lspec)
       ELSE PadElseBranch(x, y2, lspec)

NoPad == [called |-> FALSE, raised |-> "", x2 |-> NoArray, y2 |-> NoArray]

CallPad ==
    /\ ~padOut.called
    /\ padOut' \in pad(padIn.x, padIn.y)
    /\ padIn' = padIn
    /\ PadOnly

PadInit ==
    /\ padIn \in PadInputs
    /\ padOut = NoPad

PadIdle ==
    /\ padIn = [x |-> [i \in 0..1 |-> i + 1], y |-> [i \in 0..1 |-> 0]]
    /\ padOut = NoPad

PadNext == CallPad

-----------------------------------------------------------------------------
(***************************************************************************)
(* make_ccf.py: apodize.  The taper (1 - cos(t * pi)) * .5 is kept by its  *)
(* argument t, a fraction: it is 0 exactly when t = 0 and rises towards 1  *)
(* as t goes from 0 to 1.  A sample of the result is the pair of its taper *)
(* and its input value; the taper "one" is the factor 1 of line 134.       *)
(***************************************************************************)

\* Bound: the longest input of apodize.
MaxApoLen == 20

\* The inputs: spectra of every length up to the bound.
ApoInputs ==
    UNION {{[i \in 0..(L - 1) |-> a + ((b * i) % 3)] : a \in 0..2, b \in 0..1} :
              L \in 1..MaxApoLen}

\* Line 131: frac = 0.15 = 3/20.  Line 135: x < frac * lspec.  The product
\* of the doubles 0.15 and lspec never exceeds 3 * lspec / 20, and is below
\* an integer only where 3 * lspec / 20 is, so the test is the exact one.
InLeftTaper_inclusive(i, lspec) == 20 * i <= 3 * lspec

InLeftTaper(i, lspec) == 20 * i < 3 * lspec

\* Line 137: (x - lspec + 1) > (-frac * lspec).
InRightTaper(i, lspec) == 20 * (i - lspec + 1) > (0 - 3) * lspec

\* Lines 136, 138: the argument k / frac / lspec of the cosine, in units of pi.
TaperArg(k, lspec) == Rat(20 * k, 3 * lspec)

One == [one |-> TRUE, t |-> Rat(1, 1)]
Taper(t) == [one |-> FALSE, t |-> t]

\* Lines 131-139, apodize: mask * spec, sample by sample.
apodize(spec) ==
    LET lspec == Cardinality(DOMAIN spec)
        mask == [i \in DOMAIN spec |->
                    IF InRightTaper(i, lspec)
                    THEN Taper(TaperArg(lspec - i - 1, lspec))
                    ELSE IF InLeftTaper(i, lspec)
                    THEN Taper(TaperArg(i, lspec))
                    ELSE One]
    IN [called |-> TRUE,
        ret |-> [i \in DOMAIN spec |-> [mask |-> mask[i], spec |-> spec[i]]]]

CallApodize ==
    /\ ~apoOut.called
    /\ apoOut' = apodize(apoIn)
    /\ apoIn' = apoIn
    /\ ApoOnly

NoApo == [called |-> FALSE, ret |-> NoArray]

ApoInit ==
    /\ apoIn \in ApoInputs
    /\ apoOut = NoApo

ApoIdle ==
    /\ apoIn = [i \in 0..0 |-> 1]
    /\ apoOut = NoApo

ApoNext == CallApodize

-----------------------------------------------------------------------------
(***************************************************************************)
(* make_ccf.py: preprocess_data.  Wavelengths and errors are integers,     *)
(* fluxes, weights and inverse variances are fractions.                    *)
(***************************************************************************)

\* Bounds: the number of native pixels and of output grid points.
NPix == 4
npoints == 5

\* The default of the argument maxerr.
maxerr == 10

RatAdd(a, b) == Rat(a.n * b.d + b.n * a.d, a.d * b.d)
RatSub(a, b) == Rat(a.n * b.d - b.n * a.d, a.d * b.d)
RatMul(a, b) == Rat(a.n * b.n, a.d * b.d)
RatDiv(a, b) == IF a.d = 0 \/ b.d = 0 THEN NaN ELSE Rat(a.n * b.d, a.d * b.n)

NatPixels == 0..(NPix - 1)
OutPoints == 0..(npoints - 1)

\* The native wavelength axes: strictly increasing.
NativeAxes ==
    {[i \in NatPixels |-> a + i * s + (IF i = NPix - 1 THEN t ELSE 0)] :
        a \in 2..3, s \in 2..3, t \in 0..1}

\* Lines 348-349: ccf_lam = np.exp(np.linspace(logl0, logl1, npoints)) is a
\* geometric grid; here from l0 to l0 * 2^(npoints-1).
ccf_lam(l0) == [k \in OutPoints |-> l0 * IntPow(2, k)]

\* The k-th smallest (k from 0) of the values of the array f.
KthSmallest(f, k) ==
    CHOOSE v \in {f[i] : i \in DOMAIN f} :
        /\ Cardinality({i \in DOMAIN f : f[i] < v}) <= k
        /\ Cardinality({i \in DOMAIN f : f[i] <= v}) > k

\* np.nanmedian / np.median of an array of integers.
median(f) ==
    LET n == Cardinality(DOMAIN f) IN
    IF n % 2 = 1 THEN Rat(KthSmallest(f, n \div 2), 1)
    ELSE Rat(KthSmallest(f, n \div 2 - 1) + KthSmallest(f, n \div 2), 2)

\* The arguments.  cont is what get_continuum returns at line 360 after the
\* flooring of lines 364-367: exp() of a clipped spline, so any positive
\* numbers; badmask None stands for no mask.
PdInputs ==
    {[lam |-> l, spec0 |-> [i \in NatPixels |-> Rat(1 + ((s * i) % 3), 1)],
      espec |-> e, badmask |-> b, l0 |-> l0,
      cont |-> [i \in NatPixels |-> 1 + ((c * i) % 2)]] :
        l \in NativeAxes, s \in 1..2, e \in [NatPixels -> {1, 12}],
        b \in [none : {FALSE}, mask : [NatPixels -> BOOLEAN]]
              \cup {[none |-> TRUE, mask |-> [i \in NatPixels |-> FALSE]]},
        l0 \in 1..2, c \in 0..1}

\* Line 374: xind = np.searchsorted(lam, ccf_lam) - 1.
xind_nominus(lam, v) == searchsorted(lam, v)

xind(lam, v) == searchsorted(lam, v) - 1

\* Line 390: ((left_ivar * right_ivar) == 0).astype(int).
ZeroGuard_none(left_ivar, right_ivar) == Rat(0, 1)

ZeroGuard(left_ivar, right_ivar) ==
    IF RatMul(left_ivar, right_ivar) = Rat(0, 1) THEN Rat(1, 1) ELSE Rat(0, 1)

\* Lines 348-392, preprocess_data.
preprocess_data(lam, spec0, espec, l0, badmask0, cont) ==
    LET grid == ccf_lam(l0)
        mask0 == IF badmask0.none THEN [i \in DOMAIN espec |-> FALSE]
                 ELSE badmask0.mask
        mederr == median(espec)
        \* line 356: curespec > maxerr * mederr
        badmask == [i \in DOMAIN espec |->
                       mask0[i] \/ espec[i] * mederr.d > maxerr * mederr.n]
        \* lines 361-362, 371
        curivar == [i \in DOMAIN espec |->
                       IF badmask[i] THEN Rat(0, 1)
                       ELSE Rat(cont[i] * cont[i], espec[i] * espec[i])]
        \* lines 370, 373
        c_spec == [i \in DOMAIN spec0 |->
                      IF badmask[i] THEN Rat(0, 1)
                      ELSE RatDiv(spec0[i], Rat(cont[i], 1))]
        xi == [k \in OutPoints |-> xind(lam, grid[k])]
        indsub == [k \in OutPoints |->
                      xi[k] >= 0 /\ xi[k] <= Cardinality(DOMAIN lam) - 2]
        right_w == [k \in OutPoints |->
                       Rat(grid[k] - lam[xi[k]], lam[xi[k] + 1] - lam[xi[k]])]
        left_w == [k \in OutPoints |-> RatSub(Rat(1, 1), right_w[k])]
        den == [k \in OutPoints |->
                   IF ~indsub[k] THEN Rat(1, 1)
                   ELSE LET left_ivar == curivar[xi[k]]
                            right_ivar == curivar[xi[k] + 1]
                        IN RatAdd(RatAdd(
                               RatMul(RatMul(left_w[k], left_w[k]), right_ivar),
                               RatMul(RatMul(right_w[k], right_w[k]), left_ivar)),
                               ZeroGuard(left_ivar, right_ivar))]
    IN [called |-> TRUE,
        res1 |-> [k \in OutPoints |->
                     IF ~indsub[k] THEN Rat(0, 1)
                     ELSE RatAdd(RatMul(left_w[k], c_spec[xi[k]]),
                                 RatMul(right_w[k], c_spec[xi[k] + 1]))],
        res2 |-> [k \in OutPoints |->
                     IF ~indsub[k] THEN Rat(0, 1)
                     ELSE RatDiv(RatMul(curivar[xi[k]], curivar[xi[k] + 1]),
                                 den[k])],
        \* the intermediate arrays, kept for the properties
        badmask |-> badmask, curivar |-> curivar, indsub |-> indsub,
        den |-> den]

NoPd ==
    [called |-> FALSE, res1 |-> NoArray, res2 |-> NoArray, badmask |-> NoArray,
     curivar |-> NoArray, indsub |-> NoArray, den |-> NoArray]

CallPreprocessData ==
    /\ ~pdOut.called
    /\ pdOut' = preprocess_data(pdIn.lam, pdIn.spec0, pdIn.espec, pdIn.l0,
                                pdIn.badmask, pdIn.cont)
    /\ pdIn' = pdIn
    /\ PdOnly

PdInit ==
    /\ pdIn \in PdInputs
    /\ pdOut = NoPd

PdIdle ==
    /\ pdIn = [lam |-> [i \in NatPixels |-> 2 + 2 * i],
               spec0 |-> [i \in NatPixels |-> Rat(1, 1)],
               espec |-> [i \in NatPixels |-> 1],
               badmask |-> [none |-> TRUE,
                            mask |-> [i \in NatPixels |-> FALSE]],
               l0 |-> 1, cont |-> [i \in NatPixels |-> 1]]
    /\ pdOut = NoPd

PdNext == CallPreprocessData

-----------------------------------------------------------------------------
(***************************************************************************)
(* make_ccf.py: CCFConfig and the spline nodes of get_continuum.  A step   *)
(* s in km/s is held as u = ln(1 + s / 3e5), the logarithm of the node     *)
(* ratio; u increases with s, so max and >= on s are max and >= on u, and  *)
(* the floor 3e5 * (exp((logl1 - logl0) / maxcontpts) - 1) is held as      *)
(* (logl1 - logl0) / maxcontpts.  Logarithms of wavelengths are fractions. *)
(***************************************************************************)

\* Bounds: the widest range logl1 - logl0 and the largest maxcontpts.
MaxRange == 4
MaxPts == 3

\* The requested steps, as logarithms of the node ratio.
StepValues == {Rat(1, 3), Rat(1, 2), Rat(1, 1), Rat(3, 2), Rat(2, 1)}

CfgInputs ==
    [logl0 : {Rat(0, 1)}, logl1 : {Rat(r, 1) : r \in 1..MaxRange},
     splinestep : StepValues, maxcontpts : 1..MaxPts]

RatLeq(a, b) == a.n * b.d <= b.n * a.d
RatMax(a, b) == IF RatLeq(a, b) THEN b ELSE a

\* Line 54: the floor of the step.
StepFloor(logl0, logl1, maxcontpts) ==
    RatDiv(RatSub(logl1, logl0), Rat(maxcontpts, 1))

\* Lines 49-54, CCFConfig.__init__.
CCFConfig(logl0, logl1, splinestep, maxcontpts) ==
    [built |-> TRUE, logl0 |-> logl0, logl1 |-> logl1,
     maxcontpts |-> maxcontpts,
     splinestep |-> RatMax(splinestep, StepFloor(logl0, logl1, maxcontpts))]

\* np.ceil of a fraction.
Ceil(a) == IF a.n % a.d = 0 THEN a.n \div a.d ELSE (a.n \div a.d) + 1

\* Lines 83-84: N = int(np.ceil(np.log(lam0.max() / lammin) /
\* np.log(1 + splinestep / 3e5))), for a spectrum spanning span in the
\* logarithm.  The step went through exp and back through log and the
\* quotient is rounded, so a quotient that is exactly an integer n is
\* computed as n or as a double just above or below it: the ceiling is n or
\* n + 1.  Any other quotient has its exact ceiling.
NodeCounts(span, splinestep) ==
    LET quot == RatDiv(span, splinestep) IN
    IF quot.d = 1 THEN {quot.n, quot.n + 1} ELSE {Ceil(quot)}

NoCfg ==
    [built |-> FALSE, logl0 |-> Rat(0, 1), logl1 |-> Rat(0, 1),
     maxcontpts |-> 0, splinestep |-> Rat(0, 1)]

NoNodes == [N |-> 0, span |-> Rat(0, 1)]

\* ccfconf = CCFConfig(logl0, logl1, npoints, splinestep, maxcontpts).
Construct ==
    /\ ~ccfconf.built
    /\ ccfconf' = CCFConfig(cfgIn.logl0, cfgIn.logl1, cfgIn.splinestep,
                            cfgIn.maxcontpts)
    /\ UNCHANGED <<cfgIn, nodesN>>
    /\ CfgOnly

\* get_continuum on a spectrum that spans the whole range [logl0, logl1] of
\* the configuration or a part of it.
GetContinuumNodes(span, N) ==
    /\ ccfconf.built
    /\ nodesN = NoNodes
    /\ N \in NodeCounts(span, ccfconf.splinestep)
    /\ nodesN' = [N |-> N, span |-> span]
    /\ UNCHANGED <<cfgIn, ccfconf>>
    /\ CfgOnly

CfgInit ==
    /\ cfgIn \in CfgInputs
    /\ ccfconf = NoCfg
    /\ nodesN = NoNodes

CfgIdle ==
    /\ cfgIn = [logl0 |-> Rat(0, 1), logl1 |-> Rat(1, 1),
                splinestep |-> Rat(1, 1), maxcontpts |-> 1]
    /\ ccfconf = NoCfg
    /\ nodesN = NoNodes

CfgNext ==
    \/ Construct
    \/ \E k \in 1..2, N \in 1..(4 * MaxRange) :
          GetContinuumNodes(
              RatDiv(RatSub(cfgIn.logl1, cfgIn.logl0), Rat(k, 1)), N)

-----------------------------------------------------------------------------
(***************************************************************************)
(* spec_inter.py: getInterpolator called from several threads of one       *)
(* process.  The threads share interp_cache.interps; a step is one         *)
(* operation on the dictionary (atomic under the interpreter lock) or the  *)
(* thread-local work between two of them.                                  *)
(***************************************************************************)

\* Bounds: the number of threads, and of calls they make in all.
NThreads == 2
MaxThreadCalls == 4

RECURSIVE SumTo(_, _)
SumTo(f, n) == IF n = 0 THEN 0 ELSE f[n] + SumTo(f, n - 1)

Threads == 1..NThreads

\* The config every thread passes.
ThreadLib == "libA"

Resting(t) == tpc[t] \in {"idle", "done"}

\* A thread enters getInterpolator(HR, config).
TCall(t, HR) ==
    /\ Resting(t)
    /\ SumTo(tcalls, NThreads) < MaxThreadCalls
    /\ tcalls' = [tcalls EXCEPT ![t] = @ + 1]
    /\ tpc' = [tpc EXCEPT ![t] = "test"]
    /\ tHR' = [tHR EXCEPT ![t] = HR]
    /\ tobj' = [tobj EXCEPT ![t] = NoObj]
    /\ tret' = [tret EXCEPT ![t] = NoObj]
    /\ tlater' = [tlater EXCEPT ![t] =
                     HR \in DOMAIN interps /\ \A u \in Threads : Resting(u)]
    /\ UNCHANGED <<interps, nobjs, wlog>>
    /\ ThrOnly

\* Line 224: if HR not in interp_cache.interps.
TTest(t) ==
    /\ tpc[t] = "test"
    /\ tpc' = [tpc EXCEPT ![t] = IF CacheMiss(tHR[t]) THEN "load" ELSE "read"]
    /\ UNCHANGED <<tHR, tobj, tret, tcalls, tlater, interps, nobjs, wlog>>
    /\ ThrOnly

\* Lines 226-250: the reads, and the choice of the variant.
TLoad(t) ==
    /\ tpc[t] = "load"
    /\ tpc' = [tpc EXCEPT ![t] =
                  IF VariantOf(disk[<<ThreadLib, tHR[t]>>]) = "unrecognized"
                  THEN "raised" ELSE "alloc"]
    /\ UNCHANGED <<tHR, tobj, tret, tcalls, tlater, interps, nobjs, wlog>>
    /\ ThrOnly

\* Line 253: SpecInterpolator(...) makes the object and enters __init__,
\* which has set self.name (line 165) but not yet the rest.
TAlloc(t) ==
    /\ tpc[t] = "alloc"
    /\ nobjs' = nobjs + 1
    /\ tobj' = [tobj EXCEPT ![t] =
                   SpecInterpolator(nobjs + 1, tHR[t], "", <<"", "">>)]
    /\ tpc' = [tpc EXCEPT ![t] = "init"]
    /\ UNCHANGED <<tHR, tret, tcalls, tlater, interps, wlog>>
    /\ ThrOnly

\* Lines 166-173: __init__ sets the remaining attributes and returns.
TInit(t) ==
    /\ tpc[t] = "init"
    /\ tobj' = [tobj EXCEPT ![t] =
                   SpecInterpolator(@.id, tHR[t],
                                    VariantOf(disk[<<ThreadLib, tHR[t]>>]),
                                    <<ThreadLib, tHR[t]>>)]
    /\ tpc' = [tpc EXCEPT ![t] = "store"]
    /\ UNCHANGED <<tHR, tret, tcalls, tlater, interps, nobjs, wlog>>
    /\ ThrOnly

\* Line 263 is reached only after the constructor call of lines 253-262
\* has returned.
StoreReady_early(t) == tpc[t] \in {"init", "store"}

StoreReady(t) == tpc[t] = "store"

\* Line 263: interp_cache.interps[HR] = interpObj.
TStore(t) ==
    /\ StoreReady(t)
    /\ interps' = StoreEntry(tHR[t], tobj[t])
    /\ wlog' = [wlog EXCEPT ![tHR[t]] = Append(@, tobj[t])]
    /\ tpc' = [tpc EXCEPT ![t] = "return"]
    /\ UNCHANGED <<tHR, tobj, tret, tcalls, tlater, nobjs>>
    /\ ThrOnly

\* Line 265: interpObj = interp_cache.interps[HR].
TRead(t) ==
    /\ tpc[t] = "read"
    /\ tobj' = [tobj EXCEPT ![t] = interps[tHR[t]]]
    /\ tpc' = [tpc EXCEPT ![t] = "return"]
    /\ UNCHANGED <<tHR, tret, tcalls, tlater, interps, nobjs, wlog>>
    /\ ThrOnly

\* Line 266: return interpObj.
TReturn(t) ==
    /\ tpc[t] = "return"
    /\ tret' = [tret EXCEPT ![t] = tobj[t]]
    /\ tpc' = [tpc EXCEPT ![t] = "done"]
    /\ UNCHANGED <<tHR, tobj, tcalls, tlater, interps, nobjs, wlog>>
    /\ ThrOnly

\* The artifacts of every setup are on disk, one setup of each variant; the
\* cache is empty and no thread has called yet.
ThrInit ==
    /\ disk = [f \in Libs \X Setups |->
                  IF f[2] = "sdss1" THEN {"triang"} ELSE {"regular"}]
    /\ interps = [h \in {} |-> NoObj]
    /\ nobjs = 0
    /\ ncalls = 0
    /\ lastCall = NoCall
    /\ nerr = [h \in Setups |-> 0]
    /\ tpc = [t \in Threads |-> "idle"]
    /\ tHR = [t \in Threads |-> "sdss1"]
    /\ tobj = [t \in Threads |-> NoObj]
    /\ tret = [t \in Threads |-> NoObj]
    /\ tcalls = [t \in Threads |-> 0]
    /\ tlater = [t \in Threads |-> FALSE]
    /\ wlog = [h \in Setups |-> <<>>]

ThrIdle ==
    /\ tpc = [t \in Threads |-> "idle"]
    /\ tHR = [t \in Threads |-> "sdss1"]
    /\ tobj = [t \in Threads |-> NoObj]
    /\ tret = [t \in Threads |-> NoObj]
    /\ tcalls = [t \in Threads |-> 0]
    /\ tlater = [t \in Threads |-> FALSE]
    /\ wlog = [h \in Setups |-> <<>>]

ThrNext ==
    \E t \in Threads :
        \/ \E HR \in Setups : TCall(t, HR)
        \/ TTest(t)
        \/ TLoad(t)
        \/ TAlloc(t)
        \/ TInit(t)
        \/ TStore(t)
        \/ TRead(t)
        \/ TReturn(t)

-----------------------------------------------------------------------------
(***************************************************************************)
(* make_ccf.py: ccf_executor, the subsampling of the template grid.  Every *)
(* run of the program makes its own generator from the same seed.          *)
(***************************************************************************)

\* Bounds: the largest grid, the largest every, the number of runs compared.
MaxSpec == 8
MaxEvery == 4
NRuns == 2

\* Line 437: the seed of np.random.PCG64.
seed == 44

Runs == 1..NRuns

\* Line 437-438: rng.permutation(np.arange(n)) of a generator made from the
\* seed s.  The generator is deterministic, so the result is a function of
\* s and n alone; which permutation PCG64 yields is not computed here, a
\* fixed one that moves every row stands for it.
permutation(s, n) == [i \in 0..(n - 1) |-> (s + (n - 1 - i)) % n]

\* The permutations a run can draw: the generator is seeded with the
\* constant of line 437, so there is one.
RngPermutations_unseeded(n) == {permutation(s, n) : s \in 0..(n - 1)}

RngPermutations(n) == {permutation(seed, n)}

\* Row i of specs and row i of vec.T: template i's spectrum and its
\* parameter vector.
SpecRow(i) == <<"spectrum", i>>
VecRow(i) == <<"params", i>>

NoSub == [called |-> FALSE, inds |-> NoArray, specs |-> NoArray,
          vec |-> NoArray]

\* Lines 436-441 of one run: inds = rng.permutation(np.arange(nspec))
\* [:(nspec // every)]; specs = specs[inds, :]; vec = vec.T[inds, :].
Subsample(r, perm) ==
    /\ ~subOut[r].called
    /\ perm \in RngPermutations(subIn.nspec)
    /\ LET nsel == subIn.nspec \div subIn.every
           inds == [k \in 0..(nsel - 1) |-> perm[k]]
       IN subOut' = [subOut EXCEPT ![r] =
              [called |-> TRUE, inds |-> inds,
               specs |-> [k \in 0..(nsel - 1) |-> SpecRow(inds[k])],
               vec |-> [k \in 0..(nsel - 1) |-> VecRow(inds[k])]]]
    /\ subIn' = subIn
    /\ SubOnly

SubInit ==
    /\ subIn \in [nspec : 0..MaxSpec, every : 1..MaxEvery]
    /\ subOut = [r \in Runs |-> NoSub]

SubIdle ==
    /\ subIn = [nspec |-> 0, every |-> 1]
    /\ subOut = [r \in Runs |-> NoSub]

SubNext ==
    \E r \in Runs :
        \E perm \in RngPermutations(subIn.nspec) :
            Subsample(r, perm)

-----------------------------------------------------------------------------
(***************************************************************************)
(* desi_fit.py: domany.  The files matched by the mask are numbered; file  *)
(* f has the output table oprefix + 'outtab_' + fname of its own.          *)
(***************************************************************************)

\* Bounds: the number of matched files and the largest nthreads.
MaxFiles == 3
MaxNthreads == 2

\* Line 141: fs = glob.glob(mask).
fs == [k \in 1..dmIn.nfiles |-> k]

\* Lines 139-140: parallel is assigned only when nthreads > 1; otherwise the
\* local stays unbound.
ParallelAfter(n) == IF n > 1 THEN "True" ELSE "unbound"

\* Line 148: (not overwrite) and os.path.exists(ofname).
ProductsExist(f) == (~dmIn.overwrite) /\ f \in dexists

\* procdesi(f, ofname, fig_prefix): one run on file f; line 112 writes the
\* output table, replacing one that is there.
procdesi(f) ==
    /\ dran' = [dran EXCEPT ![f] = @ + 1]
    /\ dexists' = dexists \cup {f}

\* Lines 139-144: the entry of domany up to the loop.  Reading the unbound
\* local at line 142 raises UnboundLocalError.
DomanyEnter ==
    /\ dmPc = "enter"
    /\ parallel' = ParallelAfter(dmIn.nthreads)
    /\ dmPc' = IF parallel' = "unbound" THEN "UnboundLocalError" ELSE "loop"
    /\ UNCHANGED <<dmIn, dmI, dres, dran, dtaken, dexists, dlog>>
    /\ DmOnly

\* Lines 145-153: one pass of the loop body.  The message of line 149 is the
\* whole body of the if; lines 150-153 follow it for every file.
DomanyLoop ==
    /\ dmPc = "loop"
    /\ dmI <= Len(fs)
    /\ LET f == fs[dmI]
       IN /\ dlog' = IF ProductsExist(f) THEN Append(dlog, f) ELSE dlog
          /\ IF parallel = "True"
             THEN /\ dres' = Append(dres, f)
                  /\ UNCHANGED <<dran, dexists>>
             ELSE /\ procdesi(f)
                  /\ dres' = dres
    /\ dmI' = dmI + 1
    /\ UNCHANGED <<dmIn, dmPc, parallel, dtaken>>
    /\ DmOnly

\* Line 154: the loop is over.
DomanyLoopEnd ==
    /\ dmPc = "loop"
    /\ dmI > Len(fs)
    /\ dmPc' = "wait"
    /\ UNCHANGED <<dmIn, parallel, dmI, dres, dran, dtaken, dexists, dlog>>
    /\ DmOnly

\* A worker of the pool takes task k of line 151 and runs procdesi on it.
PoolWorker(k) ==
    /\ k \in 1..Len(dres)
    /\ k \notin dtaken
    /\ dtaken' = dtaken \cup {k}
    /\ procdesi(dres[k])
    /\ UNCHANGED <<dmIn, dmPc, parallel, dmI, dres, dlog>>
    /\ DmOnly

\* Lines 154-158: r.get() for every task, pool.close(), pool.join().
DomanyReturn ==
    /\ dmPc = "wait"
    /\ parallel = "True" => dtaken = 1..Len(dres)
    /\ dmPc' = "returned"
    /\ UNCHANGED <<dmIn, parallel, dmI, dres, dran, dtaken, dexists, dlog>>
    /\ DmOnly

DmInit ==
    /\ dmIn \in {[nfiles |-> n, nthreads |-> t, overwrite |-> o, exists |-> e] :
                    n \in 0..MaxFiles, t \in 1..MaxNthreads, o \in BOOLEAN,
                    e \in SUBSET (1..MaxFiles)}
    /\ dmIn.exists \subseteq 1..dmIn.nfiles
    /\ dmPc = "enter"
    /\ parallel = "unbound"
    /\ dmI = 1
    /\ dres = <<>>
    /\ dran = [f \in 1..MaxFiles |-> 0]
    /\ dtaken = {}
    /\ dexists = dmIn.exists
    /\ dlog = <<>>

DmIdle ==
    /\ dmIn = [nfiles |-> 0, nthreads |-> 1, overwrite |-> TRUE, exists |-> {}]
    /\ dmPc = "enter"
    /\ parallel = "unbound"
    /\ dmI = 1
    /\ dres = <<>>
    /\ dran = [f \in 1..MaxFiles |-> 0]
    /\ dtaken = {}
    /\ dexists = {}
    /\ dlog = <<>>

DmNext ==
    \/ DomanyEnter
    \/ DomanyLoop
    \/ DomanyLoopEnd
    \/ \E k \in 1..MaxFiles : PoolWorker(k)
    \/ DomanyReturn

-----------------------------------------------------------------------------
(***************************************************************************)
(* The specifications                                                      *)
(***************************************************************************)

InitCache == CacheInit /\ PmlIdle /\ GridIdle /\ MaskIdle /\ PadIdle
    /\ ApoIdle /\ PdIdle /\ CfgIdle /\ ThrIdle /\ SubIdle /\ DmIdle

SpecCache == InitCache /\ [][CacheNext]_vars

InitPML == PmlInit /\ CacheIdle /\ GridIdle /\ MaskIdle /\ PadIdle
    /\ ApoIdle /\ PdIdle /\ CfgIdle /\ ThrIdle /\ SubIdle /\ DmIdle

SpecPML == InitPML /\ [][PmlNext]_vars

InitGrid == GridInit /\ CacheIdle /\ PmlIdle /\ MaskIdle /\ PadIdle
    /\ ApoIdle /\ PdIdle /\ CfgIdle /\ ThrIdle /\ SubIdle /\ DmIdle

SpecGrid == InitGrid /\ [][GridNext]_vars

InitMask == MaskInit /\ CacheIdle /\ PmlIdle /\ GridIdle /\ PadIdle
    /\ ApoIdle /\ PdIdle /\ CfgIdle /\ ThrIdle /\ SubIdle /\ DmIdle

SpecMask == InitMask /\ [][MaskNext]_vars

InitPad == PadInit /\ CacheIdle /\ PmlIdle /\ GridIdle /\ MaskIdle
    /\ ApoIdle /\ PdIdle /\ CfgIdle /\ ThrIdle /\ SubIdle /\ DmIdle

SpecPad == InitPad /\ [][PadNext]_vars

InitApo == ApoInit /\ CacheIdle /\ PmlIdle /\ GridIdle /\ MaskIdle /\ PadIdle
    /\ PdIdle /\ CfgIdle /\ ThrIdle /\ SubIdle /\ DmIdle

SpecApo == InitApo /\ [][ApoNext]_vars

InitPd == PdInit /\ CacheIdle /\ PmlIdle /\ GridIdle /\ MaskIdle /\ PadIdle
    /\ ApoIdle /\ CfgIdle /\ ThrIdle /\ SubIdle /\ DmIdle

SpecPd == InitPd /\ [][PdNext]_vars

InitCfg == CfgInit /\ CacheIdle /\ PmlIdle /\ GridIdle /\ MaskIdle /\ PadIdle
    /\ ApoIdle /\ PdIdle /\ ThrIdle /\ SubIdle /\ DmIdle

SpecCfg == InitCfg /\ [][CfgNext]_vars

InitThr == ThrInit /\ PmlIdle /\ GridIdle /\ MaskIdle /\ PadIdle
    /\ ApoIdle /\ PdIdle /\ CfgIdle /\ SubIdle /\ DmIdle

SpecThr == InitThr /\ [][ThrNext]_vars

InitSub == SubInit /\ CacheIdle /\ PmlIdle /\ GridIdle /\ MaskIdle /\ PadIdle
    /\ ApoIdle /\ PdIdle /\ CfgIdle /\ ThrIdle /\ DmIdle

SpecSub == InitSub /\ [][SubNext]_vars

InitDm == DmInit /\ CacheIdle /\ PmlIdle /\ GridIdle /\ MaskIdle /\ PadIdle
    /\ ApoIdle /\ PdIdle /\ CfgIdle /\ ThrIdle /\ SubIdle

SpecDm == InitDm /\ [][DmNext]_vars

-----------------------------------------------------------------------------
(***************************************************************************)
(* Properties of the interpolator cache                                    *)
(***************************************************************************)

\* A step that is a getInterpolator call (every step of SpecCache is one).
IsCall == ncalls' = ncalls + 1

(* C1: once a call for setup HR has succeeded (HR is in the cache), every
   later getInterpolator(HR, ...) returns the very object the cache holds,
   which is the one the first successful call constructed, performs no
   mmap, warm-up or open, and the entry of HR is neither removed nor
   replaced: the set of cached setup names only grows. *)
C1_CachedEntryReturnedAndKept ==
    [][IsCall =>
        \A h \in DOMAIN interps :
            /\ h \in DOMAIN interps'
            /\ interps'[h] = interps[h]
            /\ interps[h].name = h
            /\ lastCall'.HR = h =>
                  /\ lastCall'.outcome = "cached"
                  /\ lastCall'.ret = interps[h]
                  /\ lastCall'.io = <<>>
                  /\ nobjs' = nobjs]_vars

\* C1's case: a call answered from the cache although its config names
\* another location than the one the object was built from.
C1_Witness ==
    /\ lastCall.outcome = "cached"
    /\ ncalls >= 3
    /\ lastCall.ret = interps[lastCall.HR]
    /\ lastCall.ret.id < nobjs
    /\ lastCall.ret.filename[1] # lastCall.lib
    /\ DOMAIN interps = Setups

(* C7: getInterpolator on a persisted artifact that has neither the
   'triang' nor the 'regular' field raises RuntimeError after its reads, and
   the failed call stores nothing: the cache has no entry for that setup
   afterwards and the entries of the other setups are unchanged; a call for
   a setup that is not cached always does the load (again). *)
C7_UnrecognizedRaisesAndStoresNothing ==
    [][IsCall =>
        LET c == lastCall' IN
        /\ (c.HR \notin DOMAIN interps
              /\ disk[<<c.lib, c.HR>>] \cap {"triang", "regular"} = {}) =>
                /\ c.outcome = "RuntimeError"
                /\ c.ret = NoObj
                /\ interps' = interps
                /\ c.HR \notin DOMAIN interps'
                /\ nerr'[c.HR] = nerr[c.HR] + 1
        /\ c.HR \notin DOMAIN interps =>
                /\ c.io # <<>>
                /\ c.io[1] = "mmap"
                /\ c.io[Len(c.io)] = "open"]_vars

\* C7's case: the load of a setup failed twice in a row while the other
\* setup stays cached.
C7_Witness ==
    /\ lastCall.outcome = "RuntimeError"
    /\ nerr[lastCall.HR] >= 2
    /\ DOMAIN interps = Setups \ {lastCall.HR}

-----------------------------------------------------------------------------
(***************************************************************************)
(* Properties of preprocess_model_list and ccf_executor                    *)
(***************************************************************************)

(* C2: in preprocess_model_list exactly one unit is dispatched for every
   template index i and every vsini index j (vsinis=None counting as the
   single value None), and the three returned sequences have length
   nmodels x nvsinis with entry k = i*nvsinis + j (indices from 0; from 1:
   (i-1)*nvsinis + j) holding the processed spectrum of template i
   broadened with vsini j, params[i] and vsini j, whatever the order in
   which the worker units completed. *)
C2_ResultsPairedInDispatchOrder ==
    pmlRet.returned =>
        LET vs == Vsinis(pmlIn)
            nv == Len(vs)
            n == pmlIn.nmodels * nv
        IN /\ Len(q) = n
           /\ Len(pmlRet.res) = n
           /\ Len(pmlRet.retparams) = n
           /\ Len(pmlRet.vsinisList) = n
           /\ \A i \in 1..pmlIn.nmodels, j \in 1..nv :
                LET k == (i - 1) * nv + j IN
                /\ q[k].args = <<models(i), vs[j], params(i)>>
                /\ pmlRet.res[k] = preprocess_model(models(i), vs[j])
                /\ pmlRet.retparams[k] = params(i)
                /\ pmlRet.vsinisList[k] = vs[j]

\* C2's case: a result returned for two vsinis per template although the
\* workers completed the units out of dispatch order.
C2_Witness ==
    /\ pmlRet.returned
    /\ Len(Vsinis(pmlIn)) = 2
    /\ Len(pmlRet.res) = 2 * pmlIn.nmodels
    /\ pmlIn.nmodels >= 2
    /\ completed[1] > completed[2]
    /\ pmlRet.res[1] # pmlRet.res[2]

(* C8: a failed worker unit of preprocess_model_list is not recovered: the
   caller's get() of the first failed unit (in dispatch order, the order it
   waits in) re-raises, preprocess_model_list then returns nothing, no
   further unit is collected, and ccf_executor writes none of its three
   output files; no run in which a unit failed returns a result. *)
C8_WorkerFailureAbortsBatch ==
    /\ pmlPc = "raised" =>
        /\ q[ii].st = "err"
        /\ \A k \in 1..(ii - 1) : q[k].st = "ok"
        /\ Len(res) = ii - 1
        /\ pmlRet = NoRet
        /\ files = {}
    /\ (\E k \in 1..Len(q) : q[k].st = "err") =>
        /\ ~pmlRet.returned
        /\ files = {}
        /\ pmlPc \in {"dispatch", "collect", "raised"}

\* C8's case: the caller has raised on unit ii >= 2 while a unit dispatched
\* after it had failed before it, and another one is still not done.
C8_Witness ==
    /\ pmlPc = "raised"
    /\ ii >= 2
    /\ \E k \in (ii + 1)..Len(q) :
          /\ q[k].st = "err"
          /\ completed[1] = k
    /\ \E k \in (ii + 1)..Len(q) : q[k].st \in {"queued", "running"}

-----------------------------------------------------------------------------
(***************************************************************************)
(* Properties of the interpolators                                         *)
(***************************************************************************)

\* The stored coordinate values of dimension i, of either variant.
Coords(variant, i) ==
    IF variant = "triang" THEN {TriPoints[v][i] : v \in DOMAIN TriPoints}
    ELSE {uvecs[i][k] : k \in DOMAIN uvecs[i]}

First(i) == CHOOSE x \in Coords("regular", i) : \A y \in Coords("regular", i) : x <= y
Last(i) == CHOOSE x \in Coords("regular", i) : \A y \in Coords("regular", i) : x >= y

\* p is an exact vertex of the regular grid, and its index tuple.
IsVertex(p) == \A i \in Dims : p[i] \in Coords("regular", i)
VertexOf(p) == [i \in Dims |-> CHOOSE k \in DOMAIN uvecs[i] : uvecs[i][k] = p[i]]

\* The stored spectrum of a row, and the all-ones spectrum of template length.
Stored(row) == [k \in DOMAIN dats(0) |-> Rat(dats(row)[k], 1)]
AllOnes == [k \in DOMAIN dats(0) |-> Rat(1, 1)]

\* The corner (0, ..., 0) of a cell.
Corner0 == [i \in Dims |-> 0]

\* The vertex v opens a cell (it is at the last coordinate of no dimension)
\* whose 2^N corners all have a template.
OpensFullCell(v) ==
    /\ \A i \in Dims : v[i] + 1 \in DOMAIN uvecs[i]
    /\ \A curp \in edges : idgrid[[i \in Dims |-> v[i] + curp[i]]] # -1

(* C3 as stated: GridInterp evaluated at an exact grid vertex with a template
   present at that vertex returns that vertex's stored spectrum exactly, the
   multilinear weight being 1 at that corner and 0 at every other corner. *)
C3_Original_VertexReturnsStored ==
    (/\ gridOut.op = "GridInterp"
     /\ IsVertex(gridOut.p)
     /\ idgrid[VertexOf(gridOut.p)] # -1) =>
        /\ gridOut.ret.path = "interp"
        /\ gridOut.ret.v = Stored(idgrid[VertexOf(gridOut.p)])
        /\ \E c \in edges :
              \A curp \in edges :
                 gridOut.ret.w[curp] = IF curp = c THEN Rat(1, 1) ELSE Rat(0, 1)

(* C3 amended: GridInterp evaluated at an exact grid vertex with a template
   present returns that vertex's stored spectrum exactly (np.exp applied as
   the interpolator's exp flag says), with weight 1 at that corner and 0 at
   every other corner, when the vertex is at the last stored coordinate of
   no dimension and the other 2^N - 1 corners of the cell it opens are
   present; at every other vertex it returns the all-ones unit spectrum. *)
C3_VertexOfFullCellReturnsStored ==
    (/\ gridOut.op = "GridInterp"
     /\ IsVertex(gridOut.p)
     /\ idgrid[VertexOf(gridOut.p)] # -1) =>
        IF OpensFullCell(VertexOf(gridOut.p))
        THEN /\ gridOut.ret.path = "interp"
             /\ gridOut.ret.exp = gridOut.exp
             /\ gridOut.ret.v = Stored(idgrid[VertexOf(gridOut.p)])
             /\ \A curp \in edges :
                   gridOut.ret.w[curp] =
                       IF curp = Corner0 THEN Rat(1, 1) ELSE Rat(0, 1)
        ELSE /\ gridOut.ret.path \in {"outofbounds", "absent"}
             /\ gridOut.ret.exp = FALSE
             /\ gridOut.ret.v = AllOnes

\* C3's case: a vertex away from the origin that opens a full cell, on a
\* grid that lacks a template elsewhere, evaluated to its stored spectrum.
C3_Witness ==
    /\ gridOut.op = "GridInterp"
    /\ IsVertex(gridOut.p)
    /\ VertexOf(gridOut.p) # Corner0
    /\ OpensFullCell(VertexOf(gridOut.p))
    /\ \E v \in Vertices : idgrid[v] = -1
    /\ gridOut.ret.path = "interp"
    /\ gridOut.ret.v = Stored(idgrid[VertexOf(gridOut.p)])
    /\ gridOut.ret.v # AllOnes

(* C4 as stated: GridOutsideCheck(p) returns True for every in-bounds point
   p for which at least one of the 2^N corners of the hypercube cell that
   contains p is absent (-1) in idgrid; so whenever outside(p) is False,
   GridInterp(p) is an interpolation over 2^N present corners and not the
   unit-spectrum fallback. *)
C4_Claim_OutsideReportsAbsentCorner ==
    gridOut.op = "GridOutsideCheck" =>
        LET pos == GridPos(gridOut.p) IN
        /\ (/\ ~OutOfBounds(pos)
            /\ \E curp \in edges :
                  idgrid[[i \in Dims |-> pos[i] + curp[i]]] = -1)
              => gridOut.truth
        /\ ~gridOut.truth =>
              GridInterp(idgrid, expFlag, gridOut.p).path = "interp"

(* C5: SpecInterpolator.outsideFlag returns a true value for every parameter
   vector whose mapped coordinate in at least one dimension is strictly
   below the smallest or strictly above the largest stored grid coordinate
   of that dimension, for the regular and for the triangulated variant. *)
C5_OutsideFlagBeyondExtrema ==
    gridOut.op = "outsideFlag" =>
        LET param == MapperForward(gridOut.p) IN
        (\E i \in Dims :
            \/ \A x \in Coords(gridOut.variant, i) : param[i] < x
            \/ \A x \in Coords(gridOut.variant, i) : param[i] > x)
          => gridOut.truth

\* C5's case: the mapped point is beyond the extrema in one dimension only,
\* while the raw vector lies within them in every dimension.
C5_Witness ==
    /\ gridOut.op = "outsideFlag"
    /\ gridOut.variant = "regular"
    /\ \A i \in Dims : gridOut.p[i] > First(i) /\ gridOut.p[i] < Last(i)
    /\ MapperForward(gridOut.p)[1] > Last(1)
    /\ MapperForward(gridOut.p)[0] > First(0)
    /\ MapperForward(gridOut.p)[0] < Last(0)
    /\ gridOut.truth

\* p is a convex combination of the corners of simplex t, that is, t
\* encloses p (for integer p the weights are multiples of 1/BaryDen(t)).
Encloses(t, p) ==
    LET D == BaryDen(t)
        A == TriPoints[simplices[t][1]]
        B == TriPoints[simplices[t][2]]
        C == TriPoints[simplices[t][3]]
    IN \E a \in 0..D : \E b \in 0..(D - a) :
          \A i \in Dims : D * p[i] = a * A[i] + b * B[i] + (D - a - b) * C[i]

(* C6: a query outside the interpolation domain never raises and always
   gives the same fallback: GridInterp returns the all-ones spectrum of
   template length whenever some coordinate p[i] lies outside
   [first_i, last_i) of its dimension (below the first stored value, or at
   or above the last), and TriInterp returns NaN whenever no simplex of the
   triangulation encloses p. *)
C6_OutsideDomainFallback ==
    /\ (/\ gridOut.op = "GridInterp"
        /\ \E i \in Dims : gridOut.p[i] < First(i) \/ gridOut.p[i] >= Last(i))
          => /\ gridOut.ret.v = AllOnes
             /\ gridOut.ret.exp = FALSE
    /\ (/\ gridOut.op = "TriInterp"
        /\ \A t \in DOMAIN simplices : ~Encloses(t, gridOut.p))
          => /\ gridOut.ret.v = [k \in {0} |-> NaN]
             /\ gridOut.ret.path = "nan"

\* C6's case: TriInterp asked at a point within the extrema of the stored
\* points that no simplex encloses.
C6_Witness ==
    /\ gridOut.op = "TriInterp"
    /\ \A i \in Dims :
          /\ \E x \in Coords("triang", i) : x <= gridOut.p[i]
          /\ \E x \in Coords("triang", i) : x >= gridOut.p[i]
    /\ \A t \in DOMAIN simplices : ~Encloses(t, gridOut.p)
    /\ gridOut.ret = ScalarNaN

-----------------------------------------------------------------------------
(***************************************************************************)
(* Properties of interp_masker                                             *)
(***************************************************************************)

GoodPixels == {i \in Pixels : ~maskIn.badmask[i]}
BadPixels == {i \in Pixels : maskIn.badmask[i]}

(* C9: interp_masker leaves every good (unmasked) pixel at exactly its input
   value and does not modify the input flux array; in particular, for a mask
   with no bad pixels the output equals the input exactly. *)
C9_GoodPixelsAndInputUntouched ==
    maskOut.called =>
        /\ \A i \in GoodPixels : maskOut.ret[i] = maskIn.spec[i]
        /\ maskOut.spec = maskIn.spec
        /\ DOMAIN maskOut.ret = DOMAIN maskIn.spec
        /\ BadPixels = {} => maskOut.ret = maskIn.spec

\* C9's case: a call that rewrote a bad pixel lying between good pixels,
\* which kept their values.
C9_Witness ==
    /\ maskOut.called
    /\ \E b \in BadPixels :
          /\ maskOut.ret[b] # maskIn.spec[b]
          /\ \E g \in GoodPixels : g < b
          /\ \E g \in GoodPixels : g > b
    /\ maskOut.spec = maskIn.spec
    /\ \A i \in GoodPixels : maskOut.ret[i] = maskIn.spec[i]

\* The integer flux of a good pixel (good pixels hold finite integers).
Flux(i) == maskIn.spec[i].n

Min2(a, b) == IF a <= b THEN a ELSE b
Max2(a, b) == IF a >= b THEN a ELSE b

(* C10: for a mask with at least one good pixel, interp_masker sets every
   bad pixel that has good pixels on both sides to the linear interpolation
   in wavelength between the nearest good pixel to its left and the nearest
   good pixel to its right (so its value lies between those two values),
   every bad pixel before the first good pixel to the first good pixel's
   value, and every bad pixel after the last good pixel to the last good
   pixel's value. *)
C10_BadPixelsInterpolated ==
    (maskOut.called /\ GoodPixels # {}) =>
        \A b \in BadPixels :
            LET L == {g \in GoodPixels : g < b}
                R == {g \in GoodPixels : g > b}
                v == maskOut.ret[b]
            IN IF L # {} /\ R # {}
               THEN LET gl == CHOOSE g \in L : \A h \in L : h <= g
                        gr == CHOOSE g \in R : \A h \in R : h >= g
                        dl == maskIn.lam[gr] - maskIn.lam[gl]
                    IN /\ IsFinite(v)
                       \* v = s_l + (s_r - s_l) * (lam_b - lam_l) / (lam_r - lam_l)
                       /\ v.n * dl =
                            v.d * (Flux(gl) * dl
                                   + (Flux(gr) - Flux(gl))
                                         * (maskIn.lam[b] - maskIn.lam[gl]))
                       /\ v.n >= v.d * Min2(Flux(gl), Flux(gr))
                       /\ v.n <= v.d * Max2(Flux(gl), Flux(gr))
               ELSE IF L = {}
               THEN v = maskIn.spec[CHOOSE g \in R : \A h \in R : h >= g]
               ELSE v = maskIn.spec[CHOOSE g \in L : \A h \in L : h <= g]

\* C10's case: one call that filled a bad pixel between good pixels of
\* different flux on an unevenly spaced axis with a value that is no
\* integer, and a bad pixel after the last good one.
C10_Witness ==
    /\ maskOut.called
    /\ \E b \in BadPixels :
          /\ b - 1 \in GoodPixels
          /\ b + 1 \in GoodPixels
          /\ maskIn.spec[b - 1] # maskIn.spec[b + 1]
          /\ maskIn.lam[b] - maskIn.lam[b - 1] # maskIn.lam[b + 1] - maskIn.lam[b]
          /\ maskOut.ret[b].d > 1
    /\ \E b \in BadPixels :
          /\ \A g \in GoodPixels : g < b
          /\ maskOut.ret[b] # maskIn.spec[b]

-----------------------------------------------------------------------------
(***************************************************************************)
(* Properties of pad                                                       *)
(***************************************************************************)

PadLen == Cardinality(DOMAIN padIn.y)
PadReturned == padOut.called /\ padOut.raised = ""
IsPow2(m) == \E k \in 0..m : IntPow(2, k) = m

\* C11: whenever pad returns, both returned vectors have the length L that
\* is the smallest power of two >= the input length n, and the flux is the
\* input, contiguous and unchanged, after floor((L-n)/2) zeros and before
\* the remaining zeros; an input of power-of-two length comes back unpadded.
C11_PadLengthAndFlux ==
    PadReturned =>
        LET n == PadLen
            L == Cardinality(DOMAIN padOut.y2)
            left == (L - n) \div 2
        IN /\ DOMAIN padOut.y2 = 0..(L - 1)
           /\ DOMAIN padOut.x2 = 0..(L - 1)
           /\ IsPow2(L) /\ L >= n
           /\ \A m \in n..(L - 1) : ~IsPow2(m)
           /\ \A i \in 0..(L - 1) :
                 padOut.y2[i] =
                     IF i >= left /\ i < left + n THEN padIn.y[i - left] ELSE 0
           /\ IsPow2(n) => padOut.y2 = padIn.y

\* C11's case: a returned call whose input had an odd number of pixels to
\* add (fewer on the left than on the right) and a non-zero flux at both ends.
C11_Witness ==
    /\ PadReturned
    /\ LET n == PadLen
           L == Cardinality(DOMAIN padOut.y2)
       IN /\ (L - n) % 2 = 1
          /\ L - n >= 3
          /\ padIn.y[0] = 1 /\ padIn.y[n - 1] = 1
          /\ padOut.y2[(L - n) \div 2] = 1
          /\ padOut.y2[(L - n) \div 2 - 1] = 0

\* C12, as claimed: for a linearly spaced input every consecutive difference
\* of the returned axis is the input spacing, for a logarithmically spaced
\* input pad returns and every consecutive ratio of the returned axis is
\* x[1]/x[0], and in both cases the input axis is the middle of the output.
C12_Claim_AxisExtendedBySpacing ==
    padOut.called /\ (IsLinear(padIn.x) \/ IsLog(padIn.x)) =>
        LET n == PadLen
            x == padIn.x
            x2 == padOut.x2
            left == delta1(n)
            L == l1(n)
        IN /\ PadReturned
           /\ \A i \in 0..(n - 1) : PowIs(x2[left + i], x[i])
           /\ IsLinear(x) =>
                 \A i \in 0..(L - 2) :
                     \E v \in (0 - 20)..40 :
                         /\ x2[i] = Plain(v)
                         /\ x2[i + 1] = Plain(v + x[1] - x[0])
           /\ ~IsLinear(x) =>
                 \A i \in 0..(L - 2) :
                     \E v \in 1..2000 :
                         /\ PowIs(x2[i], v)
                         /\ PowIs(x2[i + 1], (v * x[1]) \div x[0])
                         /\ (v * x[1]) % x[0] = 0

\* The part of C12 about linearly spaced input, which the code satisfies.
C12_LinearPart ==
    padOut.called /\ IsLinear(padIn.x) =>
        /\ PadReturned
        /\ \A i \in 0..(PadLen - 1) :
              padOut.x2[delta1(PadLen) + i] = Plain(padIn.x[i])
        /\ \A i \in 0..(l1(PadLen) - 2) :
              padOut.x2[i + 1].b - padOut.x2[i].b = padIn.x[1] - padIn.x[0]

-----------------------------------------------------------------------------
(***************************************************************************)
(* Properties of apodize                                                   *)
(***************************************************************************)

ApoLen == Cardinality(DOMAIN apoIn)

\* Whether the fraction a is below the fraction b.
RatLess(a, b) == a.n * b.d < b.n * a.d

\* C13: apodize returns a vector of its input's length L in which every
\* sample i with 0.15*L <= i <= L-1-0.15*L has exactly its input value;
\* the other samples are the input scaled by a taper that lies on the
\* rising half of the raised cosine (so within [0,1]), is 0 at index 0 and
\* at index L-1, and is the same at i and at L-1-i.
C13_ApodizeKeepsCentre ==
    apoOut.called =>
        LET L == ApoLen
            ret == apoOut.ret
        IN /\ DOMAIN ret = 0..(L - 1)
           /\ \A i \in 0..(L - 1) :
                 /\ ret[i].spec = apoIn[i]
                 /\ (20 * i >= 3 * L /\ 20 * i <= 20 * (L - 1) - 3 * L)
                        <=> ret[i].mask = One
                 /\ ~ret[i].mask.one =>
                        /\ ~RatLess(ret[i].mask.t, Rat(0, 1))
                        /\ RatLess(ret[i].mask.t, Rat(1, 1))
                 /\ ret[i].mask = ret[L - 1 - i].mask
           /\ ret[0].mask = Taper(Rat(0, 1))
           /\ ret[L - 1].mask = Taper(Rat(0, 1))

\* C13's case: a call on 20 samples, where 0.15*L = 3 is an index: sample 3
\* is kept, sample 2 is tapered by a factor strictly between 0 and 1, and
\* both carry a non-zero input value.
C13_Witness ==
    /\ apoOut.called
    /\ ApoLen = 20
    /\ apoOut.ret[3].mask = One
    /\ apoOut.ret[16].mask = One
    /\ apoOut.ret[2].mask = Taper(Rat(2, 3))
    /\ apoOut.ret[17].mask = Taper(Rat(2, 3))
    /\ apoIn[3] # 0 /\ apoIn[2] # 0

-----------------------------------------------------------------------------
(***************************************************************************)
(* Properties of preprocess_data                                           *)
(***************************************************************************)

PdGrid == ccf_lam(pdIn.l0)
PdFirst == pdIn.lam[0]
PdLast == pdIn.lam[NPix - 1]
Zero == Rat(0, 1)
Positive(a) == a.d > 0 /\ a.n > 0

\* Pixel i and pixel i+1 bracket the output point k.
Brackets(i, k) ==
    /\ i \in NatPixels /\ i + 1 \in NatPixels
    /\ pdIn.lam[i] < PdGrid[k] /\ PdGrid[k] <= pdIn.lam[i + 1]

\* Pixel i is bad on input: masked, or its error above maxerr * median(error).
InputBad(i) ==
    \/ ~pdIn.badmask.none /\ pdIn.badmask.mask[i]
    \/ LET m == median(pdIn.espec) IN pdIn.espec[i] * m.d > maxerr * m.n

\* C14: preprocess_data returns a flux and a weight vector of npoints values
\* each, and every output point whose wavelength is below the first or above
\* the last native pixel has flux 0 and weight 0.
C14_OutsideCoverageIsZero ==
    pdOut.called =>
        /\ DOMAIN pdOut.res1 = 0..(npoints - 1)
        /\ DOMAIN pdOut.res2 = 0..(npoints - 1)
        /\ \A k \in OutPoints :
              PdGrid[k] < PdFirst \/ PdGrid[k] > PdLast =>
                  pdOut.res1[k] = Zero /\ pdOut.res2[k] = Zero

\* C14's case: a call with an output point below the coverage, one above it
\* and one inside it that got a non-zero flux and a non-zero weight.
C14_Witness ==
    /\ pdOut.called
    /\ \E k \in OutPoints : PdGrid[k] < PdFirst
    /\ \E k \in OutPoints : PdGrid[k] > PdLast
    /\ \E k \in OutPoints :
          /\ PdGrid[k] > PdFirst /\ PdGrid[k] < PdLast
          /\ Positive(pdOut.res1[k]) /\ Positive(pdOut.res2[k])

\* C19: every pixel that is masked on input or whose error exceeds
\* maxerr * median(error) has inverse variance 0; for an output point inside
\* the coverage the denominator of the weight is never 0, the weight is
\* exactly 0 if either bracketing pixel has inverse variance 0, and the
\* denominator is strictly positive if both are positive.
C19_ZeroIvarGivesZeroWeight ==
    pdOut.called =>
        /\ \A i \in NatPixels : InputBad(i) => pdOut.curivar[i] = Zero
        /\ \A k \in OutPoints : \A i \in NatPixels :
              Brackets(i, k) =>
                  /\ pdOut.indsub[k]
                  /\ IsFinite(pdOut.den[k]) /\ pdOut.den[k] # Zero
                  /\ IsFinite(pdOut.res2[k])
                  /\ pdOut.curivar[i] = Zero \/ pdOut.curivar[i + 1] = Zero
                        => pdOut.res2[k] = Zero
                  /\ Positive(pdOut.curivar[i]) /\ Positive(pdOut.curivar[i + 1])
                        => Positive(pdOut.den[k]) /\ Positive(pdOut.res2[k])

\* C19's case: a call with an output point between two pixels of inverse
\* variance 0, one of them bad only by its error, and an output point
\* strictly between two good pixels.
C19_Witness ==
    /\ pdOut.called
    /\ \E k \in OutPoints : \E i \in NatPixels :
          /\ Brackets(i, k)
          /\ pdOut.curivar[i] = Zero /\ pdOut.curivar[i + 1] = Zero
          /\ \E j \in {i, i + 1} :
                InputBad(j) /\ (pdIn.badmask.none \/ ~pdIn.badmask.mask[j])
          /\ pdOut.res2[k] = Zero
    /\ \E k \in OutPoints : \E i \in NatPixels :
          /\ Brackets(i, k)
          /\ PdGrid[k] < pdIn.lam[i + 1]
          /\ Positive(pdOut.curivar[i]) /\ Positive(pdOut.curivar[i + 1])
          /\ Positive(pdOut.res2[k])

-----------------------------------------------------------------------------
(***************************************************************************)
(* Properties of SpecInterpolator.eval on a name-keyed mapping             *)
(***************************************************************************)

Items(d) == {d[j] : j \in 1..Len(d)}

\* C15: eval on a name-keyed mapping d returns what eval returns on the
\* ordered vector [d[n] for n in parnames], whatever the order of d's own
\* keys and whatever keys outside parnames d holds.
C15_EvalDictEqualsEvalVector ==
    gridOut.op = "eval_dict" =>
        \E v \in RawPoints :
            /\ \A i \in Dims : <<parnames[i + 1], v[i]>> \in Items(dictIn)
            /\ gridOut.ret = eval(gridOut.variant, idgrid, v)

\* C15's case: an eval on a mapping that lists the second parameter first
\* and holds an extra key, with two different parameter values, whose
\* result is an interpolated spectrum that the swapped vector would not give.
C15_Witness ==
    /\ gridOut.op = "eval_dict"
    /\ Len(dictIn) = 3
    /\ dictIn[1][1] = parnames[2]
    /\ dictIn[2] = ExtraItem
    /\ dictIn[1][2] # dictIn[3][2]
    /\ gridOut.ret.path = "interp"
    /\ gridOut.ret #
          eval(gridOut.variant, idgrid,
               [i \in Dims |-> IF i = 0 THEN dictIn[1][2] ELSE dictIn[3][2]])

-----------------------------------------------------------------------------
(***************************************************************************)
(* Properties of CCFConfig                                                 *)
(***************************************************************************)

CfgRange == RatSub(cfgIn.logl1, cfgIn.logl0)

\* C16, as claimed: every constructed CCFConfig has a step at or above the
\* floor (logl1 - logl0) / maxcontpts whatever step was requested, a
\* requested step above the floor is kept, and the nodes get_continuum lays
\* over the whole range [logl0, logl1] number at most maxcontpts.
C16_Claim_StepFloorBoundsNodes ==
    ccfconf.built =>
        LET floor == StepFloor(cfgIn.logl0, cfgIn.logl1, cfgIn.maxcontpts) IN
        /\ RatLeq(floor, ccfconf.splinestep)
        /\ RatLeq(floor, cfgIn.splinestep) =>
              ccfconf.splinestep = cfgIn.splinestep
        /\ nodesN # NoNodes /\ nodesN.span = CfgRange =>
              nodesN.N <= cfgIn.maxcontpts

\* The part of C16 about the step itself, which the code satisfies.
C16_StepPart ==
    ccfconf.built =>
        LET floor == StepFloor(cfgIn.logl0, cfgIn.logl1, cfgIn.maxcontpts) IN
        /\ RatLeq(floor, ccfconf.splinestep)
        /\ RatLeq(floor, cfgIn.splinestep) =>
              ccfconf.splinestep = cfgIn.splinestep
        /\ ~RatLeq(floor, cfgIn.splinestep) => ccfconf.splinestep = floor

-----------------------------------------------------------------------------
(***************************************************************************)
(* Properties of concurrent getInterpolator calls                          *)
(***************************************************************************)

\* obj is a fully constructed interpolator of the setup HR.
FullyBuilt(obj, HR) ==
    /\ obj.id > 0
    /\ obj.name = HR
    /\ obj.variant \in ArtifactKeys
    /\ obj.filename = <<ThreadLib, HR>>

\* C17: under every interleaving of concurrent first requests, the cache
\* never holds a partially built entry, every call returns a fully
\* constructed interpolator of its setup, the cache entry of a setup is the
\* object of the last writer, and a call that starts after all earlier calls
\* on its setup have ended returns exactly the cached instance.
C17_ConcurrentFirstCallsAreSafe ==
    /\ \A HR \in DOMAIN interps :
          /\ FullyBuilt(interps[HR], HR)
          /\ wlog[HR] # <<>> /\ interps[HR] = wlog[HR][Len(wlog[HR])]
    /\ \A t \in Threads :
          /\ tpc[t] = "read" => tHR[t] \in DOMAIN interps
          /\ tpc[t] = "done" => FullyBuilt(tret[t], tHR[t])
          /\ tpc[t] = "done" /\ tlater[t] => tret[t] = interps[tHR[t]]

\* C17's case: two threads built the same setup redundantly, the second
\* store replaced the first, the first writer returned its own object, which
\* is no longer the cached one, and a later call returned the cached one.
C17_Witness ==
    \E HR \in Setups : \E t, u \in Threads :
        /\ \A w \in Threads : tpc[w] = "done"
        /\ Len(wlog[HR]) = 2
        /\ tHR[t] = HR /\ tHR[u] = HR
        /\ tret[t] = wlog[HR][1] /\ tret[t] # interps[HR]
        /\ tcalls[u] = 2 /\ tlater[u] /\ tret[u] = interps[HR]

-----------------------------------------------------------------------------
(***************************************************************************)
(* Properties of GridInterp on cells that lack a template                  *)
(***************************************************************************)

\* p lies in a cell of the grid: in every dimension at or above the first
\* coordinate and below the last.
InBounds(p) == \A i \in Dims : First(i) <= p[i] /\ p[i] < Last(i)

\* The index of the cell that holds an in-bounds p.
CellOf(p) ==
    [i \in Dims |->
        CHOOSE k \in DOMAIN uvecs[i] :
            /\ k + 1 \in DOMAIN uvecs[i]
            /\ uvecs[i][k] <= p[i] /\ p[i] < uvecs[i][k + 1]]

\* The corners of the cell that holds p that have no template.
AbsentCorners(p) ==
    {curp \in edges : idgrid[[i \in Dims |-> CellOf(p)[i] + curp[i]]] = -1}

\* C18: for an in-bounds p, GridInterp returns the all-ones unit spectrum
\* (np.exp not applied) whenever at least one of the 2^N corners of the cell
\* that holds p is absent, whatever the weight of that corner; and whenever
\* it returns a combination, every corner is present and the weights are
\* those of all 2^N corners, summing to 1.
C18_AbsentCornerGivesUnitSpectrum ==
    gridOut.op = "GridInterp" /\ InBounds(gridOut.p) =>
        IF AbsentCorners(gridOut.p) # {}
        THEN /\ gridOut.ret.path = "absent"
             /\ gridOut.ret.v = AllOnes
             /\ gridOut.ret.exp = FALSE
        ELSE /\ gridOut.ret.path = "interp"
             /\ DOMAIN gridOut.ret.w = edges
             /\ \E den \in 1..100 :
                   SumOver(edges, [curp \in edges |->
                       (gridOut.ret.w[curp].n * den) \div gridOut.ret.w[curp].d])
                       = den
                   /\ \A curp \in edges : den % gridOut.ret.w[curp].d = 0

\* C18's case: an in-bounds point on a vertex of the grid whose cell lacks
\* exactly one corner, a corner of weight 0 (the vertex itself has a
\* template), and the result is the unit spectrum.
C18_Witness ==
    /\ gridOut.op = "GridInterp"
    /\ InBounds(gridOut.p)
    /\ IsVertex(gridOut.p)
    /\ idgrid[VertexOf(gridOut.p)] # -1
    /\ Cardinality(AbsentCorners(gridOut.p)) = 1
    /\ gridOut.ret.path = "absent"
    /\ gridOut.ret.v = AllOnes
    /\ gridOut.exp

-----------------------------------------------------------------------------
(***************************************************************************)
(* Properties of interp_masker when every pixel is masked                  *)
(***************************************************************************)

\* C20: interp_masker called with every pixel bad returns an array of the
\* input's length that holds 1 where the input is not finite and the input
\* value everywhere else, and the input array is as it was before the call.
C20_AllBadReturnsFlooredCopy ==
    maskOut.called /\ GoodPixels = {} =>
        /\ DOMAIN maskOut.ret = DOMAIN maskIn.spec
        /\ \A i \in Pixels :
              maskOut.ret[i] =
                  IF maskIn.spec[i] = NaN THEN Rat(1, 1) ELSE maskIn.spec[i]
        /\ maskOut.spec = maskIn.spec

\* C20's case: a call with every pixel bad on a flux that holds a non-finite
\* value and finite values other than 1; the result differs from the input,
\* which still holds the non-finite value.
C20_Witness ==
    /\ maskOut.called
    /\ GoodPixels = {}
    /\ \E i \in Pixels : maskIn.spec[i] = NaN /\ maskOut.spec[i] = NaN
                         /\ maskOut.ret[i] = Rat(1, 1)
    /\ \E i \in Pixels : maskIn.spec[i] = Rat(3, 1) /\ maskOut.ret[i] = Rat(3, 1)
    /\ \E i \in Pixels : maskIn.spec[i] = Rat(0, 1) /\ maskOut.ret[i] = Rat(0, 1)

-----------------------------------------------------------------------------
(***************************************************************************)
(* Properties of pad on an axis of unsupported spacing                     *)
(***************************************************************************)

\* C21: for every wavelength axis that is neither linearly nor
\* logarithmically spaced, pad raises an exception and returns nothing.
C21_UnsupportedSpacingRaises ==
    padOut.called /\ ~IsLinear(padIn.x) /\ ~IsLog(padIn.x) =>
        /\ padOut.raised = "Exception"
        /\ padOut.x2 = NoArray
        /\ padOut.y2 = NoArray

\* C21's case: a call on an axis whose first differences are equal and
\* whose last one is not, with a non-zero flux, that raised.
C21_Witness ==
    /\ padOut.called
    /\ PadLen >= 4
    /\ padIn.x[2] - padIn.x[1] = padIn.x[1] - padIn.x[0]
    /\ padIn.x[PadLen - 1] - padIn.x[PadLen - 2] # padIn.x[1] - padIn.x[0]
    /\ ~IsLog(padIn.x)
    /\ \E i \in DOMAIN padIn.y : padIn.y[i] # 0
    /\ padOut.raised = "Exception"

-----------------------------------------------------------------------------
(***************************************************************************)
(* Properties of the subsampling in ccf_executor                           *)
(***************************************************************************)

\* C22: every run selects exactly floor(nspec/every) distinct rows of the
\* grid, each selected spectrum goes with the parameter vector of the same
\* row, and any two runs on the same nspec and every select the same rows
\* in the same order.
C22_SubsampleIsReproducible ==
    \A r \in Runs :
        subOut[r].called =>
            LET nsel == subIn.nspec \div subIn.every
                out == subOut[r]
            IN /\ DOMAIN out.inds = 0..(nsel - 1)
               /\ DOMAIN out.specs = 0..(nsel - 1)
               /\ DOMAIN out.vec = 0..(nsel - 1)
               /\ \A k \in 0..(nsel - 1) :
                     /\ out.inds[k] \in 0..(subIn.nspec - 1)
                     /\ \A j \in 0..(nsel - 1) :
                           out.inds[j] = out.inds[k] => j = k
                     /\ \E i \in 0..(subIn.nspec - 1) :
                           out.specs[k] = SpecRow(i) /\ out.vec[k] = VecRow(i)
               /\ \A r2 \in Runs : subOut[r2].called => subOut[r2] = out

\* C22's case: two runs on a grid that every does not divide, each with at
\* least two rows selected, other than the first rows of the grid.
C22_Witness ==
    /\ \A r \in Runs : subOut[r].called
    /\ subIn.nspec % subIn.every # 0
    /\ subIn.every > 1
    /\ subIn.nspec \div subIn.every >= 2
    /\ subOut[1].inds[0] # 0
    /\ subOut[1].specs[1] = SpecRow(subOut[2].inds[1])

-----------------------------------------------------------------------------
(***************************************************************************)
(* The cache key of getInterpolator                                        *)
(***************************************************************************)

\* The call recorded in lastCall put its object in the cache.
BuiltBy(c) == c.outcome = "built"

\* C23: the cache is keyed by the setup name alone.  A call for a cached
\* setup whose config names another template_lib than the one the entry was
\* built from, or whose warmup_cache differs from that of the call that
\* built the entry just before, returns the cached object, which carries the
\* location and the variant of the first config, reads nothing, and leaves
\* the cache as it was.
C23_CacheKeyedBySetupNameAlone ==
    [][IsCall =>
        \A h \in DOMAIN interps :
            LET c == lastCall'
                otherLib == c.lib # interps[h].filename[1]
                otherWarmup == /\ BuiltBy(lastCall)
                               /\ lastCall.HR = h
                               /\ c.warmup # lastCall.warmup
            IN (c.HR = h /\ (otherLib \/ otherWarmup)) =>
                  /\ c.outcome = "cached"
                  /\ c.ret = interps[h]
                  /\ c.ret.filename = <<interps[h].filename[1], h>>
                  /\ c.ret.variant = VariantOf(disk[c.ret.filename])
                  /\ otherWarmup => c.ret = lastCall.ret
                  /\ c.io = <<>>
                  /\ interps' = interps
                  /\ nobjs' = nobjs]_vars

\* C23's case: a setup built from one location without the warm-up, then
\* asked for with the other location, where the artifact is of the other
\* variant, and with the warm-up: the first object comes back.
C23_Witness ==
    /\ lastCall.outcome = "cached"
    /\ lastCall.warmup
    /\ ncalls = 2
    /\ nobjs = 1
    /\ lastCall.ret.filename[1] # lastCall.lib
    /\ VariantOf(disk[<<lastCall.lib, lastCall.HR>>]) \notin
          {lastCall.ret.variant, "unrecognized"}

-----------------------------------------------------------------------------
(***************************************************************************)
(* Properties of domany                                                    *)
(***************************************************************************)

Matched == 1..dmIn.nfiles
Dispatched(f) == \E k \in 1..Len(dres) : dres[k] = f

\* C24: with overwrite=False a file whose output table exists at the call
\* is neither run nor dispatched, the call does not fail in either mode, and
\* on return every other matched file has been processed exactly once.
C24_Claim_ExistingOutputsSkipped ==
    (~dmIn.overwrite) =>
        /\ dmPc # "UnboundLocalError"
        /\ \A f \in Matched \cap dmIn.exists :
              dran[f] = 0 /\ ~Dispatched(f)
        /\ dmPc = "returned" =>
              \A f \in Matched \ dmIn.exists : dran[f] = 1

\* What the code does instead: with nthreads = 1 the call raises before the
\* loop and processes nothing; with nthreads > 1 every matched file, its
\* output present or not, is dispatched once and has been processed exactly
\* once on return, and the message is all a present output causes.
C24_WhatDomanyDoes ==
    /\ dmIn.nthreads = 1 =>
          /\ dmPc \in {"enter", "UnboundLocalError"}
          /\ \A f \in 1..MaxFiles : dran[f] = 0
    /\ dmIn.nthreads > 1 =>
          /\ dmPc # "UnboundLocalError"
          /\ \A f \in Matched : dran[f] <= 1
          /\ dmPc = "returned" => \A f \in Matched : dran[f] = 1
          /\ \A k \in 1..Len(dlog) :
                dlog[k] \in dmIn.exists /\ Dispatched(dlog[k])

\* The two ways C24 fails: a file with a present output processed in the
\* parallel mode after its message, and the serial call ending in the error.
C24_SkippedFileProcessed ==
    /\ ~dmIn.overwrite
    /\ dmPc = "returned"
    /\ \E f \in Matched \cap dmIn.exists :
          dran[f] = 1 /\ \E k \in 1..Len(dlog) : dlog[k] = f
    /\ \E f \in Matched \ dmIn.exists : dran[f] = 1

C24_SerialCallRaises ==
    /\ ~dmIn.overwrite
    /\ dmIn.nthreads = 1
    /\ dmIn.nfiles > 0
    /\ dmPc = "UnboundLocalError"

=============================================================================
